---------------------------- MODULE Spec2Model ----------------------------
(***************************************************************************)
(* A model of the three TouhouGame variants of the repository:             *)
(*   "scrolling"  src/themes/reimu/assets/js/touhou-game.ts                *)
(*   "single"     src/unnamed/part_000   (one boss, shuffled script)       *)
(*   "three"      src/unnamed/part_001   (three bosses in succession)      *)
(* and of the boss pattern scheduler they share (src/unnamed/part_002).    *)
(*                                                                         *)
(* Lengths are whole pixels, times whole milliseconds.  Fractional         *)
(* velocities of the source are rounded to whole pixels per frame.         *)
(* JavaScript objects are given an id field so that "the same bullet" can  *)
(* be told from "an equal bullet".                                         *)
(***************************************************************************)
EXTENDS Integers, Sequences, FiniteSets, TLC

\* JavaScript's null, as a record with no field of a game object
NULL == [null |-> TRUE]

\* ------------------------------------------------------------------ bounds
MaxFrames == 3          \* the display refreshes this many times at most
MaxPending == 2         \* no new start/resume once this many callbacks are pending
MaxHandles == 3         \* no new start/resume once this many handles were handed out
Epoch == 100000         \* Date.now() at performance.now() = 0

\* ------------------------------------------------------ the canvas element
CanvasWidth == 720
CanvasHeight == 480

\* ------------------------------------------------------- program constants
PlayerSpeed == 5
HitboxRadius == 4
ShootCooldown3 == 150
ShootCooldownS == 80
IFrame1 == 1200
IFrame3 == 2000
MaxStage == 3
BossKillScore == 1000
EnemyKillScore == 100
ParticleLife == 1000
ExtendStep == 4000
BossKillScoreS == 10000
BossHealthS == 3000
BossHealth1 == 1000

\* ------------------------------------------------------------------ helpers
Max(a, b) == IF a >= b THEN a ELSE b
Min(a, b) == IF a <= b THEN a ELSE b
Abs(a) == IF a >= 0 THEN a ELSE -a

\* integer square root (floor), by bisection
RECURSIVE IsqrtIn(_, _, _)
IsqrtIn(n, lo, hi) ==
  IF lo >= hi THEN lo
  ELSE LET mid == (lo + hi + 1) \div 2
       IN IF mid * mid <= n THEN IsqrtIn(n, mid, hi) ELSE IsqrtIn(n, lo, mid - 1)
Isqrt(n) == IsqrtIn(n, 0, Min(n, 2048))

\* a / b rounded to the nearest integer (b > 0), halves away from zero
RoundDiv(a, b) == IF a >= 0 THEN (2 * a + b) \div (2 * b)
                  ELSE -((2 * (-a) + b) \div (2 * b))

\* the velocity of length speed10/10 along (dx, dy):
\*   vx = cos(atan2(dy, dx)) * speed,  vy = sin(atan2(dy, dx)) * speed
Aim(dx, dy, speed10) ==
  LET dist == Isqrt(dx * dx + dy * dy)
  IN IF dist = 0 THEN [vx |-> RoundDiv(speed10, 10), vy |-> 0]
     ELSE [vx |-> RoundDiv(dx * speed10, dist * 10),
           vy |-> RoundDiv(dy * speed10, dist * 10)]

\* sin(t / 800) * 80 sampled sixteen times per period (2 pi 800 ms ~ 16 * 314 ms)
SwayTable == <<0, 31, 57, 74, 80, 74, 57, 31, 0, -31, -57, -74, -80, -74, -57, -31>>
Sway(t) == SwayTable[((t \div 314) % 16) + 1]

\* cos and sin of a whole number of degrees, times 100, in steps of 15 degrees
CosTable == <<100, 97, 87, 71, 50, 26, 0, -26, -50, -71, -87, -97,
              -100, -97, -87, -71, -50, -26, 0, 26, 50, 71, 87, 97>>
Cos100(deg) == CosTable[((((deg % 360) + 7) \div 15) % 24) + 1]
Sin100(deg) == Cos100(deg + 270)

\* Math.cos(angle) * speed, Math.sin(angle) * speed
Polar(deg, speed10) == [vx |-> RoundDiv(Cos100(deg) * speed10, 1000),
                        vy |-> RoundDiv(Sin100(deg) * speed10, 1000)]

\* Array.prototype.splice(i, 1) on a 0-based index; splice(-1, 1) removes the last
\* element of a non-empty array and nothing from an empty one
Splice(s, i) ==
  LET k == IF i < 0 THEN Max(Len(s) + i, 0) ELSE Min(i, Len(s))
  IN IF k >= Len(s) THEN s
     ELSE SubSeq(s, 1, k) \o SubSeq(s, k + 2, Len(s))

\* Array.prototype.indexOf by object identity, 0-based, -1 when absent
IndexOf(s, b) ==
  IF \E i \in 1..Len(s) : s[i].id = b.id
  THEN (CHOOSE i \in 1..Len(s) : s[i].id = b.id /\ \A j \in 1..(i - 1) : s[j].id # b.id) - 1
  ELSE -1

Ids(s) == {s[i].id : i \in 1..Len(s)}

\* checkCollision / checkRectCollision: axis-aligned box overlap
checkCollision(rect1, rect2) ==
  /\ rect1.x < rect2.x + rect2.width
  /\ rect1.x + rect1.width > rect2.x
  /\ rect1.y < rect2.y + rect2.height
  /\ rect1.y + rect1.height > rect2.y

\* how many of the targets the box overlaps
Overlapped(box, targets) ==
  Cardinality({i \in 1..Len(targets) : checkCollision(box, targets[i])})

\* ------------------------------------------------------------ the variants
Variants == {"scrolling", "single", "three"}
BossVariants == {"single", "three"}
PauseVariants == {"single", "three"}

PlayerWidth(v) == IF v = "scrolling" THEN 60 ELSE 32
PlayerHeight(v) == IF v = "scrolling" THEN 78 ELSE 40
InitialLives(v) == IF v = "single" THEN 3 ELSE 5
\* startGame's player position
SpawnX(v) == IF v = "scrolling" THEN CanvasWidth \div 2 - 25 ELSE CanvasWidth \div 2 - 16
SpawnY(v) == IF v = "scrolling" THEN CanvasHeight - 100 ELSE CanvasHeight - 70
\* the constructor's player position
CtorX(v) == IF v = "scrolling" THEN CanvasWidth \div 2 - 30 ELSE CanvasWidth \div 2 - 16
CtorY(v) == IF v = "scrolling" THEN CanvasHeight - 120 ELSE CanvasHeight - 70

DateNow(t) == Epoch + t

\* a bullet object; every bullet the three variants create carries vx and vy
Bullet(id, x, y, width, height, vx, vy, type) ==
  [id |-> id, x |-> x, y |-> y, width |-> width, height |-> height,
   vx |-> vx, vy |-> vy, type |-> type]

\* ------------------------------------------------------- the pattern library
\* A pattern: its name, its duration, the gate  tick % every < window, and the
\* shape of what one gated call of spawn returns.
Pattern(name, duration, every, window, kind, count, speed10, dy) ==
  [name |-> name, duration |-> duration, every |-> every, window |-> window,
   kind |-> kind, count |-> count, speed10 |-> speed10, dy |-> dy]

\* slow(v) = v * 0.8, in tenths of a pixel per frame
slow(v10) == (v10 * 8) \div 10

radialBurst == Pattern("radialBurst", 5000, 600, 16, "radial", 24, slow(25), 30)
spiralStream == Pattern("spiralStream", 6000, 60, 16, "radial", 2, slow(30), 20)
aimedVolley == Pattern("aimedVolley", 4000, 500, 16, "aimed", 5, slow(32), 30)
waveRings == Pattern("waveRings", 5000, 400, 16, "radial", 16, slow(22), 24)
zigzagBarrage == Pattern("zigzagBarrage", 4800, 56, 12, "fan", 5, slow(26), 18)
crossSpread == Pattern("crossSpread", 4400, 480, 20, "radial", 8, slow(28), 23)
laserWall == Pattern("laserWall", 6000, 700, 16, "wall", 18, slow(26), 5)
inwardSpiral == Pattern("inwardSpiral", 5800, 83, 16, "aimed", 7, slow(25), 0)
sidelongZigzag == Pattern("sidelongZigzag", 4500, 220, 18, "sides", 8, slow(30), 10)
curtainRain == Pattern("curtainRain", 5000, 90, 16, "rain", 9, slow(26), 0)
gappedRingSweep == Pattern("gappedRingSweep", 4500, 500, 16, "ring", 36, slow(24), 0)
aimedSpiral == Pattern("aimedSpiral", 5500, 70, 16, "aimed", 3, slow(30), 0)
simpleRain == Pattern("simpleRain", 4000, 150, 16, "rain6", 6, slow(20), 0)
denseSpiral == Pattern("denseSpiral", 6000, 40, 16, "radial", 4, slow(35), 0)

Boss1Patterns == <<spiralStream, aimedVolley, simpleRain>>
Boss2Patterns == <<radialBurst, zigzagBarrage, waveRings, crossSpread, curtainRain>>
Boss3Patterns == <<laserWall, inwardSpiral, sidelongZigzag, gappedRingSweep, denseSpiral>>
\* the array shufflePatterns is applied to (part_002 269-348)
ScriptPool == <<radialBurst, zigzagBarrage, spiralStream, crossSpread, aimedVolley,
                waveRings, curtainRain, gappedRingSweep, aimedSpiral, laserWall,
                inwardSpiral, sidelongZigzag>>

\* one BossBulletConfig, already resolved to vx = cos(angleRad) * speed,
\* vy = sin(angleRad) * speed as updateBoss does when it pushes the bullet
Config(x, y, v, width, height) ==
  [x |-> x, y |-> y, vx |-> v.vx, vy |-> v.vy, width |-> width, height |-> height, skip |-> FALSE]

\* a velocity turned by deg degrees
Rotate(v, deg) ==
  [vx |-> RoundDiv(v.vx * Cos100(deg) - v.vy * Sin100(deg), 100),
   vy |-> RoundDiv(v.vx * Sin100(deg) + v.vy * Cos100(deg), 100)]

\* what the body of a pattern's gated branch returns
Volley(p, ctx) ==
  LET bx == ctx.bossPos.x
      by == ctx.bossPos.y
      toPlayer == Aim(ctx.playerPos.x - bx, ctx.playerPos.y - by, p.speed10)
      rot == (ctx.tick \div 8) % 360
      gapWall == (Abs(Sin100((ctx.tick * 573) \div 12000)) * 16) \div 100
      gapRing == (ctx.tick \div 10) % 36
  IN CASE p.kind = "radial" ->
            [i \in 1..p.count |->
               Config(bx, by + p.dy, Polar((360 \div p.count) * (i - 1) + rot, p.speed10), 4, 8)]
       [] p.kind = "aimed" ->
            [i \in 1..p.count |->
               Config(bx, by + p.dy, Rotate(toPlayer, (i - 1 - p.count \div 2) * 15), 4, 8)]
       [] p.kind = "fan" ->
            [i \in 1..p.count |->
               Config(bx + (i - 3) * 26, by + p.dy, Polar(60 + (i - 3) * 20, p.speed10), 4, 8)]
       [] p.kind = "wall" ->
            SelectSeq([i \in 1..p.count |->
                         [Config(70 + (i - 1) * 38, by + p.dy, Polar(90, p.speed10), 6, 16)
                            EXCEPT !.skip = (i - 1 = gapWall \/ i - 1 = gapWall + 1)]],
                      LAMBDA c : ~c.skip)
       [] p.kind = "sides" ->
            [i \in 1..p.count |->
               Config(IF i <= 4 THEN 70 ELSE 620, by + p.dy + ((i - 1) % 4) * 9,
                      Polar(IF i <= 4 THEN 75 ELSE 105, p.speed10), 4, 8)]
       [] p.kind = "rain" ->
            [i \in 1..p.count |-> Config(80 + (i - 1) * 70, by, Polar(90, p.speed10), 4, 8)]
       [] p.kind = "rain6" ->
            [i \in 1..p.count |-> Config(150 + (i - 1) * 100, by, Polar(90, p.speed10), 4, 8)]
       [] p.kind = "ring" ->
            SelectSeq([i \in 1..p.count |->
                         [Config(bx, by, Polar(10 * (i - 1) + rot, p.speed10), 4, 8)
                            EXCEPT !.skip = (i - 1 = gapRing \/ i - 1 = (gapRing + 18) % 36)]],
                      LAMBDA c : ~c.skip)

\* BossPattern.spawn(ctx): every pattern gates itself on the tick it is handed
spawn(p, ctx) ==
  IF ctx.tick % p.every < p.window THEN Volley(p, ctx) ELSE <<>>

\* ---------------------------------------------------------------------------
\* The operators below take and return a record w holding every field of a
\* TouhouGame object (named as in the source) together with the browser state
\* the handlers read and write: now, raf (the pending animation-frame
\* callbacks), rafSeq (the last handle handed out), nextId (object identities),
\* ev, a log of what the handler that ran last did, and the history fields
\* bossTime (the frame time handed to updateBoss since the boss was spawned),
\* lastHitAt (Date.now() when a life was last lost, -1 before the first),
\* extends, bossSpawns and spawnedInBossPhase.
\* ---------------------------------------------------------------------------

NoEvent(kind) ==
  [kind |-> kind,        \* the handler that ran last
   updates |-> 0,        \* calls of update
   livesLost |-> 0,      \* executions of lives--
   defeats |-> 0,        \* executions of the boss-defeated branch
   threw |-> FALSE,      \* an uncaught TypeError ended the callback
   ticks |-> <<>>,       \* the ctx.tick of each call of a pattern's spawn, in order
   volleys |-> <<>>,     \* the number of bullets each call of spawn returned, in order
   shuffles |-> <<>>,    \* the calls of shufflePatterns: input, input afterwards, result
   inCircle |-> <<>>,    \* for each lives--: did the bullet pass the circular test
   onPlayer |-> 0,       \* hostile bullets on the player when the collision passes began
   removed |-> <<>>,     \* ids of player bullets spliced out by a collision, in order
   absorbed |-> <<>>,    \* ids of hostile bullets spliced out by a collision, in order
   damaged |-> <<>>,     \* <<bullet id, target id, targets the bullet overlapped>>
                         \* for each health decrement
   hitBy |-> <<>>,       \* <<bullet id, pool>> of the hostile bullets that cost a life
   ranOut |-> FALSE,     \* a lives-- left no life
   gaps |-> <<>>,        \* for each life lost, the time since the life lost before it
   orphaned |-> {},      \* ids of bullets moved to orphanBullets
   integrated |-> <<>>,  \* ids of bullets integrated by updateBullets, in order
   outcomes |-> <<>>]    \* "over" for each game-over call, "win" for each victory call

\* this.gameState.lives--, to the hostile bullet bulletId, with its history
LoseLife(w, bulletId, pool) ==
  [w EXCEPT !.gameState.lives = @ - 1,
            !.lastHitAt = DateNow(w.now),
            !.ev.livesLost = @ + 1,
            !.ev.hitBy = Append(@, <<bulletId, pool>>),
            !.ev.ranOut = @ \/ w.gameState.lives - 1 <= 0,
            !.ev.gaps = IF w.lastHitAt < 0 THEN @ ELSE Append(@, DateNow(w.now) - w.lastHitAt)]

\* createExplosion: ten particles of life 1000 (position, velocity, colour and size
\* are random and cosmetic; a particle is modelled by its remaining life)
createExplosion(w) ==
  [w EXCEPT !.particles = @ \o [i \in 1..10 |-> ParticleLife]]

RECURSIVE createExplosions(_, _)
createExplosions(w, n) == IF n = 0 THEN w ELSE createExplosions(createExplosion(w), n - 1)

\* gameOver and gameWin stop the run; the rest of both is DOM and audio
\* (title is the text of the game-over screen's heading, which only gameWin and
\* the three-stage restartGame write)
gameOver(w) == [w EXCEPT !.gameState.isRunning = FALSE, !.screenShown = TRUE,
                         !.ev.outcomes = Append(@, "over")]
gameWin(w) == [w EXCEPT !.gameState.isRunning = FALSE, !.screenShown = TRUE,
                        !.title = "Victory!",
                        !.ev.outcomes = Append(@, "win")]

healthValues == <<1000, 1500, 2000>>

\* spawnBoss(stage) of the three-stage variant; the single-boss variant builds the
\* same boss inline in startGame with health 1000
spawnBoss(w, stage) ==
  [w EXCEPT !.boss = [id |-> w.nextId,
                      x |-> CanvasWidth \div 2 - 48, y |-> 40, width |-> 96, height |-> 96,
                      health |-> IF w.variant = "three" THEN healthValues[stage] ELSE BossHealth1,
                      maxHealth |-> IF w.variant = "three" THEN healthValues[stage] ELSE BossHealth1,
                      bullets |-> <<>>, lastShot |-> 0],
            !.nextId = @ + 1,
            !.patternIndex = 0,
            !.patternElapsed = 0,
            !.bossTime = 0]

\* playerShoot of the boss variants: two bullets aimed at the boss centre, or one
\* straight up when there is no boss; nothing within the cooldown
playerShoot(w) ==
  IF DateNow(w.now) - w.player.lastShot < ShootCooldown3 THEN w
  ELSE IF w.boss # NULL
       THEN LET fromY == w.player.y
                toX == w.boss.x + w.boss.width \div 2
                toY == w.boss.y + w.boss.height \div 2
                shot(i) ==
                  LET fromX == w.player.x + PlayerWidth(w.variant) \div 2 + (IF i = 0 THEN -5 ELSE 5)
                      v == Aim(toX - fromX, toY - fromY, 70)
                  IN Bullet(w.nextId + i, fromX, fromY, 4, 8, v.vx, v.vy, "player")
            IN [w EXCEPT !.player.bullets = @ \o <<shot(0), shot(1)>>,
                         !.player.lastShot = DateNow(w.now),
                         !.nextId = @ + 2]
       ELSE [w EXCEPT !.player.bullets =
                         Append(@, Bullet(w.nextId, w.player.x + PlayerWidth(w.variant) \div 2 - 2,
                                          w.player.y, 4, 8, 0, -7, "player")),
                      !.player.lastShot = DateNow(w.now),
                      !.nextId = @ + 1]

\* movePlayer without the Math.max / Math.min at the edges
movePlayerUnclamped(w) ==
  LET speed == IF w.isSlowHeld THEN (PlayerSpeed * 4) \div 10 ELSE PlayerSpeed
      x1 == IF "arrowleft" \in w.keys THEN w.player.x - speed ELSE w.player.x
      x2 == IF "arrowright" \in w.keys THEN x1 + speed ELSE x1
      y1 == IF "arrowup" \in w.keys THEN w.player.y - speed ELSE w.player.y
      y2 == IF "arrowdown" \in w.keys THEN y1 + speed ELSE y1
  IN [w EXCEPT !.player.x = x2, !.player.y = y2]

\* the movement part of updatePlayer, the same in the three variants:
\* each held direction moves by speed and clamps, in the order left, right, up, down
movePlayer(w) ==
  LET speed == IF w.isSlowHeld THEN (PlayerSpeed * 4) \div 10 ELSE PlayerSpeed
      x1 == IF "arrowleft" \in w.keys THEN Max(0, w.player.x - speed) ELSE w.player.x
      x2 == IF "arrowright" \in w.keys
            THEN Min(CanvasWidth - PlayerWidth(w.variant), x1 + speed) ELSE x1
      y1 == IF "arrowup" \in w.keys THEN Max(0, w.player.y - speed) ELSE w.player.y
      y2 == IF "arrowdown" \in w.keys
            THEN Min(CanvasHeight - PlayerHeight(w.variant), y1 + speed) ELSE y1
  IN [w EXCEPT !.player.x = x2, !.player.y = y2]

\* updatePlayer of the boss variants (the sprite animation is not modelled)
updatePlayer(w) ==
  LET w1 == movePlayer(w)
  IN IF w1.isShootingHeld THEN playerShoot(w1) ELSE w1

\* the playlist updateBoss reads: DefaultBossScript, or patternSets[stage - 1]
Playlist(w) ==
  IF w.variant = "three" THEN w.patternSets[w.gameState.stage] ELSE w.patternSets[1]

\* the bullets updateBoss pushes for the configs a spawn call returned
SpawnedBullets(configs, firstId) ==
  [i \in 1..Len(configs) |->
     Bullet(firstId + i - 1, configs[i].x, configs[i].y, configs[i].width, configs[i].height,
            configs[i].vx, configs[i].vy, "enemy")]

\* updateBoss of the boss variants: float movement, then the pattern scheduler
\* a scheduler that moves on without starting the next pattern's clock
advancePatternOnly(w, current) ==
  IF w.patternElapsed >= current.duration
  THEN [w EXCEPT !.patternIndex = @ + 1]
  ELSE w

\* a rotation that steps the index back instead of on
advancePatternBackwards(w, current) ==
  IF w.patternElapsed >= current.duration
  THEN [w EXCEPT !.patternIndex = @ - 1, !.patternElapsed = 0]
  ELSE w

\* if (this.patternElapsed >= current.duration) { this.patternIndex++; this.patternElapsed = 0; }
advancePattern(w, current) ==
  IF w.patternElapsed >= current.duration
  THEN [w EXCEPT !.patternIndex = @ + 1, !.patternElapsed = 0]
  ELSE w

\* a scheduler that builds the context before it adds the frame's delta
updateBossTickFirst(w, deltaTime) ==
  IF w.boss = NULL THEN w
  ELSE
    LET bx == CanvasWidth \div 2 - w.boss.width \div 2 + Sway(w.now)
        elapsed == w.patternElapsed + deltaTime
        patterns == Playlist(w)
        w1 == [w EXCEPT !.boss.x = bx, !.patternElapsed = elapsed,
                        !.bossTime = @ + deltaTime]
    IN IF Len(patterns) > 0
       THEN LET current == patterns[(w.patternIndex % Len(patterns)) + 1]
                ctx == [bossPos |-> [x |-> bx + w.boss.width \div 2,
                                     y |-> w.boss.y + w.boss.height \div 2],
                        playerPos |-> [x |-> w.player.x + PlayerWidth(w.variant) \div 2,
                                       y |-> w.player.y + PlayerHeight(w.variant) \div 2],
                        tick |-> w.patternElapsed]
                configs == spawn(current, ctx)
                w2 == [w1 EXCEPT !.boss.bullets = @ \o SpawnedBullets(configs, w.nextId),
                                 !.nextId = @ + Len(configs),
                                 !.ev.ticks = Append(@, ctx.tick),
                                 !.ev.volleys = Append(@, Len(configs))]
            IN advancePattern(w2, current)
       ELSE w1

updateBoss(w, deltaTime) ==
  IF w.boss = NULL THEN w
  ELSE
    LET bx == CanvasWidth \div 2 - w.boss.width \div 2 + Sway(w.now)
        elapsed == w.patternElapsed + deltaTime
        patterns == Playlist(w)
        w1 == [w EXCEPT !.boss.x = bx, !.patternElapsed = elapsed,
                        !.bossTime = @ + deltaTime]
    IN IF Len(patterns) > 0
       THEN LET current == patterns[(w.patternIndex % Len(patterns)) + 1]
                ctx == [bossPos |-> [x |-> bx + w.boss.width \div 2,
                                     y |-> w.boss.y + w.boss.height \div 2],
                        playerPos |-> [x |-> w.player.x + PlayerWidth(w.variant) \div 2,
                                       y |-> w.player.y + PlayerHeight(w.variant) \div 2],
                        tick |-> elapsed]
                configs == spawn(current, ctx)
                w2 == [w1 EXCEPT !.boss.bullets = @ \o SpawnedBullets(configs, w.nextId),
                                 !.nextId = @ + Len(configs),
                                 !.ev.ticks = Append(@, ctx.tick),
                                 !.ev.volleys = Append(@, Len(configs))]
            IN advancePattern(w2, current)
       ELSE w1

\* an integration that scales the step the way a 32 ms frame would
IntegrateTwice(b) == [b EXCEPT !.x = @ + 2 * b.vx, !.y = @ + 2 * b.vy]

\* one bullet after bullet.x += bullet.vx; bullet.y += bullet.vy
Integrate(b) == [b EXCEPT !.x = @ + b.vx, !.y = @ + b.vy]

\* the filter predicates of updateBullets in the boss variants
KeepPlayerBullet(b) == b.y > -b.height /\ b.x >= -20 /\ b.x <= CanvasWidth + 20
KeepBossBullet(b) == b.y < CanvasHeight + b.height /\ b.y > -b.height - 10

IntegrateAll(bullets) == [i \in 1..Len(bullets) |-> Integrate(bullets[i])]
IdSeq(bullets) == [i \in 1..Len(bullets) |-> bullets[i].id]

\* updateBullets of the boss variants
updateBullets(w) ==
  LET pb == IntegrateAll(w.player.bullets)
      w1 == [w EXCEPT !.player.bullets = SelectSeq(pb, KeepPlayerBullet),
                      !.ev.integrated = @ \o IdSeq(pb)]
  IN IF w1.boss # NULL
     THEN LET bb == IntegrateAll(w1.boss.bullets)
          IN [w1 EXCEPT !.boss.bullets = SelectSeq(bb, KeepBossBullet),
                        !.ev.integrated = @ \o IdSeq(bb)]
     ELSE w1

\* updateParticles of the boss variants: life -= deltaTime, kept while life > 0
updateParticles(w, deltaTime) ==
  [w EXCEPT !.particles =
     SelectSeq([i \in 1..Len(w.particles) |-> w.particles[i] - deltaTime], LAMBDA l : l > 0)]

\* the player's hit box of the boss variants: the square around the hit-radius dot
Hitbox(w) ==
  [x |-> w.player.x + PlayerWidth(w.variant) \div 2 - HitboxRadius,
   y |-> w.player.y + PlayerHeight(w.variant) \div 2 - HitboxRadius,
   width |-> HitboxRadius * 2, height |-> HitboxRadius * 2]

\* the circular test of the scrolling variant:
\* dist(bullet centre, player centre) < playerHitboxRadius + bullet.width / 2
HitsPlayer(w, b) ==
  LET dx2 == 2 * b.x + b.width - (2 * w.player.x + PlayerWidth(w.variant))
      dy2 == 2 * b.y + b.height - (2 * w.player.y + PlayerHeight(w.variant))
  IN dx2 * dx2 + dy2 * dy2 < (2 * HitboxRadius + b.width) * (2 * HitboxRadius + b.width)

\* --- updateCollisions, first loop: player bullets vs enemies (boss variants).
\* Array.prototype.forEach visits index k while k is below the array's current
\* length and hands the callback the element then at k.
RECURSIVE EnemyLoop(_, _, _, _)
EnemyLoop(w, bullet, bulletIndex, enemyIndex) ==
  IF enemyIndex >= Len(w.enemies) THEN w
  ELSE
    LET enemy == w.enemies[enemyIndex + 1]
    IN IF checkCollision(bullet, enemy)
       THEN LET gone == IF bulletIndex < Len(w.player.bullets)
                        THEN <<w.player.bullets[bulletIndex + 1].id>> ELSE <<>>
                w1 == createExplosion(
                        [w EXCEPT !.player.bullets = Splice(@, bulletIndex),
                                  !.enemies[enemyIndex + 1].health = @ - 1,
                                  !.ev.removed = @ \o gone,
                                  !.ev.damaged = Append(@, <<bullet.id, enemy.id, Overlapped(bullet, w.enemies)>>)])
                w2 == IF enemy.health - 1 <= 0
                      THEN [w1 EXCEPT !.enemies = Splice(@, enemyIndex),
                                      !.gameState.score = @ + EnemyKillScore]
                      ELSE w1
            IN EnemyLoop(w2, bullet, bulletIndex, enemyIndex + 1)
       ELSE EnemyLoop(w, bullet, bulletIndex, enemyIndex + 1)

RECURSIVE BulletsVsEnemies(_, _)
BulletsVsEnemies(w, k) ==
  IF k >= Len(w.player.bullets) THEN w
  ELSE BulletsVsEnemies(EnemyLoop(w, w.player.bullets[k + 1], k, 0), k + 1)

\* --- second loop, single-boss variant: the overlapping bullet is spliced out of
\* the array being iterated, then a life is taken if the iFrames have run out
RECURSIVE BossBulletsVsPlayer1(_, _)
BossBulletsVsPlayer1(w, k) ==
  IF k >= Len(w.boss.bullets) THEN w
  ELSE
    LET bullet == w.boss.bullets[k + 1]
        now == DateNow(w.now)
    IN IF checkCollision(bullet, Hitbox(w))
       THEN LET w1 == [w EXCEPT !.boss.bullets = Splice(@, k),
                                !.ev.absorbed = Append(@, bullet.id)]
                w2 == IF now >= w1.invulnerableUntil
                      THEN LET w3 == createExplosion(
                                       [LoseLife(w1, bullet.id, "boss")
                                          EXCEPT !.ev.inCircle = Append(@, HitsPlayer(w, bullet)),
                                                 !.invulnerableUntil = now + IFrame1])
                           IN IF w3.gameState.lives <= 0 THEN gameOver(w3) ELSE w3
                      ELSE w1
            IN BossBulletsVsPlayer1(w2, k + 1)
       ELSE BossBulletsVsPlayer1(w, k + 1)

\* the second loop of the three-stage variant without the test of invulnerableUntil
RECURSIVE BossBulletsVsPlayer3NoWindow(_, _, _)
BossBulletsVsPlayer3NoWindow(w, arr, k) ==
  IF k >= Len(arr) THEN w
  ELSE
    LET bullet == arr[k + 1]
        now == DateNow(w.now)
    IN IF checkCollision(bullet, Hitbox(w))
       THEN LET w1 == createExplosions(
                        [LoseLife(w, bullet.id, "boss")
                           EXCEPT !.ev.inCircle = Append(@, HitsPlayer(w, bullet)),
                                  !.invulnerableUntil = now + IFrame3,
                                  !.boss.bullets = <<>>], 31)
                w2 == IF w1.gameState.lives <= 0 THEN gameOver(w1) ELSE w1
            IN BossBulletsVsPlayer3NoWindow(w2, arr, k + 1)
       ELSE BossBulletsVsPlayer3NoWindow(w, arr, k + 1)

\* --- second loop, three-stage variant: the bomb assigns a new empty array to
\* boss.bullets, so forEach goes on over the old array, arr, which nothing changes
RECURSIVE BossBulletsVsPlayer3(_, _, _)
BossBulletsVsPlayer3(w, arr, k) ==
  IF k >= Len(arr) THEN w
  ELSE
    LET bullet == arr[k + 1]
        now == DateNow(w.now)
    IN IF checkCollision(bullet, Hitbox(w)) /\ now >= w.invulnerableUntil
       THEN LET w1 == createExplosions(
                        [LoseLife(w, bullet.id, "boss")
                           EXCEPT !.ev.inCircle = Append(@, HitsPlayer(w, bullet)),
                                  !.invulnerableUntil = now + IFrame3,
                                  !.boss.bullets = <<>>], 31)
                w2 == IF w1.gameState.lives <= 0 THEN gameOver(w1) ELSE w1
            IN BossBulletsVsPlayer3(w2, arr, k + 1)
       ELSE BossBulletsVsPlayer3(w, arr, k + 1)

\* a boss-defeated branch without the bonus life
BossDefeatedUnrewarded(w) ==
  IF w.variant = "single"
  THEN gameOver([createExplosion(w) EXCEPT !.boss = NULL, !.ev.defeats = @ + 1])
  ELSE LET w1 == [createExplosion(w) EXCEPT !.gameState.score = @ + BossKillScore,
                                           !.gameState.stage = @ + 1,
                                           !.ev.defeats = @ + 1]
       IN IF w1.gameState.stage <= MaxStage
          THEN spawnBoss(w1, w1.gameState.stage)
          ELSE gameWin([w1 EXCEPT !.boss = NULL])

\* a boss-defeated branch that counts the stages one short
BossDefeatedWinsEarly(w) ==
  IF w.variant = "single"
  THEN gameOver([createExplosion(w) EXCEPT !.boss = NULL, !.ev.defeats = @ + 1])
  ELSE LET w1 == [createExplosion(w) EXCEPT !.gameState.score = @ + BossKillScore,
                                           !.gameState.lives = @ + 1,
                                           !.gameState.stage = @ + 1,
                                           !.ev.defeats = @ + 1]
       IN IF w1.gameState.stage < MaxStage
          THEN spawnBoss(w1, w1.gameState.stage)
          ELSE gameWin([w1 EXCEPT !.boss = NULL])

\* the boss-defeated branch
BossDefeated(w) ==
  IF w.variant = "single"
  THEN gameOver([createExplosion(w) EXCEPT !.boss = NULL, !.ev.defeats = @ + 1])
  ELSE LET w1 == [createExplosion(w) EXCEPT !.gameState.score = @ + BossKillScore,
                                           !.gameState.lives = @ + 1,
                                           !.gameState.stage = @ + 1,
                                           !.ev.defeats = @ + 1]
       IN IF w1.gameState.stage <= MaxStage
          THEN spawnBoss(w1, w1.gameState.stage)
          ELSE gameWin([w1 EXCEPT !.boss = NULL])

\* --- third loop: player bullets vs boss.  The callback reads this.boss!.x, which
\* throws a TypeError once the branch above has set this.boss to null.
PerHitDamage(v) == IF v = "three" THEN 2 ELSE 1

RECURSIVE BulletsVsBoss(_, _)
BulletsVsBoss(w, k) ==
  IF k >= Len(w.player.bullets) THEN w
  ELSE IF w.boss = NULL THEN [w EXCEPT !.ev.threw = TRUE]
  ELSE
    LET bullet == w.player.bullets[k + 1]
    IN IF checkCollision(bullet, w.boss)
       THEN LET w1 == [w EXCEPT !.player.bullets = Splice(@, k),
                                !.boss.health = @ - PerHitDamage(w.variant),
                                !.ev.removed = Append(@, bullet.id),
                                !.ev.damaged = Append(@, <<bullet.id, w.boss.id, 1>>)]
                w2 == IF w1.boss.health <= 0 THEN BossDefeated(w1) ELSE w1
            IN BulletsVsBoss(w2, k + 1)
       ELSE BulletsVsBoss(w, k + 1)

\* updateCollisions of the boss variants
updateCollisions(w) ==
  LET w0 == IF w.boss = NULL THEN w
            ELSE [w EXCEPT !.ev.onPlayer =
                    @ + Len(SelectSeq(w.boss.bullets, LAMBDA b : checkCollision(b, Hitbox(w))))]
      w1 == BulletsVsEnemies(w0, 0)
      w2 == IF w1.boss # NULL
            THEN IF w1.variant = "single" THEN BossBulletsVsPlayer1(w1, 0)
                 ELSE BossBulletsVsPlayer3(w1, w1.boss.bullets, 0)
            ELSE w1
  IN IF w2.boss # NULL THEN BulletsVsBoss(w2, 0) ELSE w2

\* update of the boss variants
update(w, deltaTime) ==
  updateCollisions(
    updateParticles(
      updateBullets(
        updateBoss(updatePlayer(w), deltaTime)), deltaTime))

\* ----------------------------------------------------- the scrolling variant

\* updateUI of the scrolling variant: besides the DOM text, one extend per call
updateUIS(w) ==
  IF w.gameState.score >= w.gameState.nextExtend
  THEN [w EXCEPT !.gameState.lives = @ + 1, !.gameState.nextExtend = @ + ExtendStep,
                 !.extends = @ + 1]
  ELSE w

showGameOver(w) == [w EXCEPT !.gameState.isRunning = FALSE, !.screenShown = TRUE,
                             !.ev.outcomes = Append(@, "over")]
showVictory(w) == [w EXCEPT !.gameState.isRunning = FALSE, !.screenShown = TRUE,
                            !.title = "Victory!",
                            !.ev.outcomes = Append(@, "win")]

\* createBulletClearEffect: three particles of life 20 per cleared bullet
ClearEffects(w, n) == [w EXCEPT !.particles = @ \o [i \in 1..(3 * n) |-> 20]]

RECURSIVE SumLen(_)
SumLen(enemies) ==
  IF enemies = <<>> THEN 0 ELSE Len(Head(enemies).bullets) + SumLen(Tail(enemies))

\* playerHit without the bomb
playerHitNoBomb(w, bulletId, pool) ==
  LET w1 == updateUIS(LoseLife(w, bulletId, pool))
  IN IF w1.gameState.lives <= 0 THEN showGameOver(w1) ELSE w1

\* playerHit: a life, then the bomb: every enemy list, the orphan pool and the
\* boss list are replaced by empty arrays
playerHit(w, bulletId, pool) ==
  LET w1 == updateUIS(LoseLife(w, bulletId, pool))
      cleared == SumLen(w1.enemies) + Len(w1.orphanBullets)
                 + (IF w1.boss # NULL THEN Len(w1.boss.bullets) ELSE 0)
      w2 == ClearEffects(
              [w1 EXCEPT !.enemies = [i \in 1..Len(w1.enemies) |->
                                        [w1.enemies[i] EXCEPT !.bullets = <<>>]],
                         !.orphanBullets = <<>>,
                         !.boss = IF w1.boss = NULL THEN NULL
                                  ELSE [w1.boss EXCEPT !.bullets = <<>>]], cleared)
  IN IF w2.gameState.lives <= 0 THEN showGameOver(w2) ELSE w2

\* playerShoot of the scrolling variant: three straight bullets and two homing ones
playerShootS(w) ==
  IF DateNow(w.now) - w.player.lastShot < ShootCooldownS THEN w
  ELSE
    LET centerX == w.player.x + PlayerWidth(w.variant) \div 2
        topY == w.player.y
        hasTarget == w.boss # NULL \/ Len(w.enemies) > 0
        target == IF w.boss # NULL THEN w.boss
                  ELSE IF Len(w.enemies) > 0 THEN w.enemies[1]
                  ELSE [x |-> centerX, y |-> 0, width |-> 0, height |-> 0]
        targetX == target.x + target.width \div 2
        targetY == target.y + target.height \div 2
        leftX == w.player.x
        sideY == w.player.y + PlayerHeight(w.variant) \div 2
        rightX == w.player.x + PlayerWidth(w.variant)
        homing(fromX) ==
          IF targetX = fromX /\ targetY = sideY THEN [vx |-> 0, vy |-> -12]
          ELSE Aim(targetX - fromX, targetY - sideY, 120)
        straight(i) == Bullet(w.nextId + i + 1, centerX - 4 + i * 15, topY, 8, 16, 0, -12, "player")
        left == Bullet(w.nextId + 3, leftX - 4, sideY, 8, 16,
                       homing(leftX).vx, homing(leftX).vy, "player")
        right == Bullet(w.nextId + 4, rightX - 4, sideY, 8, 16,
                        homing(rightX).vx, homing(rightX).vy, "player")
    IN [w EXCEPT !.player.bullets = @ \o <<straight(-1), straight(0), straight(1), left, right>>,
                 !.player.lastShot = DateNow(w.now),
                 !.nextId = @ + 5]

updatePlayerS(w) ==
  LET w1 == movePlayer(w)
  IN IF w1.isShootingHeld THEN playerShootS(w1) ELSE w1

\* the out-of-bounds test the four loops of the scrolling updateBullets share
OutOfBounds(b) ==
  b.y < -10 \/ b.y > CanvasHeight + 10 \/ b.x < -10 \/ b.x > CanvasWidth + 10

Cull(bullets) == SelectSeq(IntegrateAll(bullets), LAMBDA b : ~OutOfBounds(b))

\* the ids a backwards loop over the array integrates, in its order
RevIds(bullets) == [i \in 1..Len(bullets) |-> bullets[Len(bullets) + 1 - i].id]

RECURSIVE EnemyBulletIds(_)
EnemyBulletIds(enemies) ==
  IF enemies = <<>> THEN <<>>
  ELSE RevIds(Head(enemies).bullets) \o EnemyBulletIds(Tail(enemies))

\* an updateBullets without the loop over the orphan pool
updateBulletsSNoOrphans(w) ==
  [w EXCEPT !.player.bullets = Cull(@),
            !.enemies = [i \in 1..Len(w.enemies) |->
                           [w.enemies[i] EXCEPT !.bullets = Cull(@)]],
            !.boss = IF w.boss = NULL THEN NULL ELSE [w.boss EXCEPT !.bullets = Cull(@)],
            !.ev.integrated = @ \o RevIds(w.player.bullets) \o EnemyBulletIds(w.enemies)
                                \o (IF w.boss = NULL THEN <<>> ELSE RevIds(w.boss.bullets))]

\* updateBullets of the scrolling variant: player, each enemy, orphans, boss
updateBulletsS(w) ==
  [w EXCEPT !.player.bullets = Cull(@),
            !.enemies = [i \in 1..Len(w.enemies) |->
                           [w.enemies[i] EXCEPT !.bullets = Cull(@)]],
            !.orphanBullets = Cull(@),
            !.boss = IF w.boss = NULL THEN NULL ELSE [w.boss EXCEPT !.bullets = Cull(@)],
            !.ev.integrated = @ \o RevIds(w.player.bullets) \o EnemyBulletIds(w.enemies)
                                \o RevIds(w.orphanBullets)
                                \o (IF w.boss = NULL THEN <<>> ELSE RevIds(w.boss.bullets))]

\* updateParticles of the scrolling variant: life-- per frame
updateParticlesS(w) ==
  [w EXCEPT !.particles =
     SelectSeq([i \in 1..Len(w.particles) |-> w.particles[i] - 1], LAMBDA l : l > 0)]

\* sin and cos of num/den radians, times 100
SinRad100(num, den) == Sin100((num * 573) \div (den * 10))
CosRad100(num, den) == Cos100((num * 573) \div (den * 10))

\* the movement of one enemy in updateEnemies, by movementType
MoveEnemy(e, nowMs) ==
  LET timeAlive == nowMs - e.spawnTime
  IN CASE e.movementType = 0 -> [e EXCEPT !.x = @ + e.vx, !.y = @ + e.vy]
       [] e.movementType = 1 -> [e EXCEPT !.y = @ + e.vy]
       [] e.movementType = 2 -> [e EXCEPT !.x = @ + RoundDiv(SinRad100(timeAlive, 500) * 2, 100),
                                          !.y = @ + e.vy]
       [] e.movementType = 3 -> [e EXCEPT !.x = @ + RoundDiv(SinRad100(timeAlive, 200) * 3, 100),
                                          !.y = @ + e.vy]
       [] e.movementType = 4 ->
            IF e.targetY # 0 /\ e.y < e.targetY THEN [e EXCEPT !.y = @ + e.vy]
            ELSE [e EXCEPT !.x = @ + RoundDiv(CosRad100(timeAlive, 300) * 2, 100),
                           !.y = @ + RoundDiv(SinRad100(timeAlive, 300) * 2, 100)]
       [] OTHER ->
            IF timeAlive < 1000 THEN [e EXCEPT !.y = @ + e.vy]
            ELSE [e EXCEPT !.x = @ + RoundDiv(CosRad100(timeAlive, 400) * 15, 1000),
                           !.y = @ + RoundDiv(SinRad100(timeAlive, 400) * 15, 1000)]

\* the velocities of the bullets one enemyShoot call pushes, by patternType
\* (pattern 9 draws its directions at random: six of the directions of pattern 6)
EnemyShotVelocities(e, toPlayer) ==
  CASE e.patternType = 0 -> <<[vx |-> 0, vy |-> 3]>>
    [] e.patternType = 1 -> <<toPlayer>>
    [] e.patternType = 2 -> [i \in 1..3 |-> Polar(90 + (i - 2) * 23, 20)]
    [] e.patternType = 3 -> [i \in 1..5 |-> Polar(72 * (i - 1), 18)]
    [] e.patternType = 4 -> [i \in 1..2 |-> Rotate(toPlayer, (2 * i - 3) * 9)]
    [] e.patternType = 5 -> [i \in 1..4 |-> toPlayer]
    [] e.patternType = 6 -> [i \in 1..8 |-> Polar(45 * (i - 1), 15)]
    [] e.patternType = 7 -> [i \in 1..5 |-> Rotate(toPlayer, (i - 3) * 11)]
    [] e.patternType = 8 -> [i \in 1..4 |-> Polar(90 * (i - 1), 25)]
    [] OTHER -> [i \in 1..6 |-> Polar(60 * (i - 1), 20)]

\* enemyShoot: the bullets start at the enemy's centre
enemyShoot(e, w, firstId) ==
  LET cx == e.x + e.width \div 2
      cy == e.y + e.height \div 2
      toPlayer == Aim(w.player.x + PlayerWidth(w.variant) \div 2 - cx,
                      w.player.y + PlayerHeight(w.variant) \div 2 - cy, 25)
      vs == EnemyShotVelocities(e, toPlayer)
      top == IF e.patternType \in {0, 1, 2, 3, 4} THEN cy ELSE cy - 6
  IN [e EXCEPT !.bullets = @ \o [i \in 1..Len(vs) |->
                                   Bullet(firstId + i - 1, cx - 6, top, 12, 12,
                                          vs[i].vx, vs[i].vy, "enemy")]]

\* a transfer that lets the dead enemy's bullets go with it
pushNothing(orphans, bullets) == orphans

\* this.orphanBullets.push(...enemy.bullets)
pushOrphans(orphans, bullets) == orphans \o bullets

\* updateEnemies: from the last enemy to the first, move, shoot when the cooldown
\* has run out, and remove the enemy when it has left the screen or is dead; a dead
\* enemy's bullets are pushed to orphanBullets and 100 points awarded
RECURSIVE EnemiesFrom(_, _)
EnemiesFrom(w, i) ==
  IF i < 1 THEN w
  ELSE
    LET nowMs == DateNow(w.now)
        moved == MoveEnemy(w.enemies[i], nowMs)
        shoots == nowMs - moved.lastShot > moved.shootCooldown
        shot == IF shoots
                THEN [enemyShoot(moved, w, w.nextId) EXCEPT !.lastShot = nowMs]
                ELSE moved
        w1 == [w EXCEPT !.enemies[i] = shot,
                        !.nextId = @ + (Len(shot.bullets) - Len(moved.bullets))]
        w2 == IF shot.y > CanvasHeight + 50 \/ shot.health <= 0
              THEN LET w3 == IF shot.health <= 0
                             THEN updateUIS(
                                    [w1 EXCEPT !.orphanBullets = pushOrphans(@, shot.bullets),
                                               !.gameState.score = @ + EnemyKillScore,
                                               !.ev.orphaned = @ \cup Ids(shot.bullets)])
                             ELSE w1
                   IN [w3 EXCEPT !.enemies = Splice(@, i - 1)]
              ELSE w1
    IN EnemiesFrom(w2, i - 1)

updateEnemies(w) == EnemiesFrom(w, Len(w.enemies))

\* spawnBoss of the scrolling variant
spawnBossS(w) ==
  [w EXCEPT !.boss = [id |-> w.nextId, x |-> CanvasWidth \div 2 - 25, y |-> 70,
                      width |-> 50, height |-> 70,
                      health |-> BossHealthS, maxHealth |-> BossHealthS,
                      bullets |-> <<>>, lastShot |-> DateNow(w.now)],
            !.nextId = @ + 1,
            !.bossSpawns = @ + 1]

\* an updateScroll that spawns the boss without setting bossPhase
updateScrollNoFlag(w) ==
  IF w.gameState.scrollY > 0
  THEN [w EXCEPT !.gameState.scrollY = Max(@ - 12, 0)]
  ELSE IF ~w.gameState.bossPhase
       THEN spawnBossS(w)
       ELSE w

\* updateScroll; scrollY is kept in hundredths of a pixel (1920 -> 192000, 0.12 -> 12)
updateScroll(w) ==
  IF w.gameState.scrollY > 0
  THEN [w EXCEPT !.gameState.scrollY = Max(@ - 12, 0)]
  ELSE IF ~w.gameState.bossPhase
       THEN spawnBossS([w EXCEPT !.gameState.bossPhase = TRUE])
       ELSE w

\* the outcomes of the Math.random() calls of one spawnEnemies call: the spawn
\* lane (left, middle, right), the shot pattern, the movement type, the cooldown
EnemyDraws ==
  {[lane |-> l, patternType |-> p, movementType |-> m, shootCooldown |-> c] :
     l \in {0, 1, 2}, p \in {0, 1}, m \in {0, 1}, c \in {1200, 2000}}

\* the draw handed to a call that cannot reach Math.random()
DefaultDraw == [lane |-> 1, patternType |-> 0, movementType |-> 0, shootCooldown |-> 2000]

\* spawnEnemies
spawnEnemies(w, deltaTime, draw) ==
  LET timer == w.enemySpawnTimer + deltaTime
  IN IF timer > 500
     THEN LET m == draw.movementType
              vy == IF m = 0 THEN 1 ELSE IF m = 1 THEN 3 ELSE IF m \in {4, 5} THEN 1 ELSE 2
              maxHealth == 24 - ((w.gameState.scrollY + 9599) \div 9600)
              e == [id |-> w.nextId,
                    x |-> CASE draw.lane = 0 -> 40
                            [] draw.lane = 1 -> CanvasWidth \div 2 - 20
                            [] OTHER -> CanvasWidth - 120,
                    y |-> -50, width |-> 44, height |-> 44,
                    vx |-> 1 - draw.lane, vy |-> vy,
                    health |-> maxHealth, maxHealth |-> maxHealth,
                    bullets |-> <<>>, lastShot |-> DateNow(w.now),
                    shootCooldown |-> draw.shootCooldown,
                    patternType |-> draw.patternType, movementType |-> m,
                    spawnTime |-> DateNow(w.now),
                    targetY |-> IF m = 4 THEN 200 ELSE 0]
          IN [w EXCEPT !.enemySpawnTimer = 0, !.enemies = Append(@, e), !.nextId = @ + 1,
                       !.spawnedInBossPhase = @ \/ w.gameState.bossPhase]
     ELSE [w EXCEPT !.enemySpawnTimer = timer]

\* bossShoot: the pattern follows the wall clock, Math.floor(Date.now() / 2500) % 12
bossShoot(w) ==
  LET cx == w.boss.x + w.boss.width \div 2
      cy == w.boss.y + w.boss.height \div 2
      cycle == (DateNow(w.now) \div 2500) % 12
      toPlayer(speed10) == Aim(w.player.x + PlayerWidth(w.variant) \div 2 - cx,
                               w.player.y + PlayerHeight(w.variant) \div 2 - cy, speed10)
      vs == CASE cycle = 0 -> [i \in 1..12 |-> Polar(30 * (i - 1), 60)]
              [] cycle = 2 -> [i \in 1..5 |-> Rotate(toPlayer(40), (i - 3) * 9)]
              [] cycle = 7 -> [i \in 1..7 |-> Rotate(toPlayer(30), (i - 4) * 9)]
              [] OTHER -> [i \in 1..12 |-> Polar(30 * (i - 1), 20)]
  IN [w EXCEPT !.boss.bullets = @ \o [i \in 1..Len(vs) |->
                                        Bullet(w.nextId + i - 1, cx - 6, cy - 6, 12, 12,
                                               vs[i].vx, vs[i].vy, "enemy")],
               !.nextId = @ + Len(vs)]

\* updateBoss of the scrolling variant: movement by the wall clock, clamped to
\* the field, a shot every 400 ms, then the defeat check
updateBossS(w) ==
  IF w.boss = NULL THEN w
  ELSE
    LET nowMs == DateNow(w.now)
        cycle == (nowMs \div 4000) % 4
        sec == (nowMs \div 1000) % 4
        bx == CASE cycle = 0 -> w.boss.x + RoundDiv(SinRad100(nowMs, 1000) * 2, 100)
                [] cycle = 1 -> w.boss.x + (IF sec % 3 = 0 THEN -2 ELSE IF sec % 3 = 1 THEN 2 ELSE 0)
                [] cycle = 2 -> w.boss.x
                [] OTHER -> w.boss.x + (IF sec = 0 THEN 2 ELSE IF sec = 2 THEN -2 ELSE 0)
        by == CASE cycle = 2 -> 70 + RoundDiv(SinRad100(2 * nowMs, 1000) * 30, 100)
                [] cycle = 3 -> w.boss.y + (IF sec = 1 THEN 1 ELSE IF sec = 3 THEN -1 ELSE 0)
                [] OTHER -> w.boss.y
        w1 == [w EXCEPT !.boss.x = Max(0, Min(CanvasWidth - w.boss.width, bx)),
                        !.boss.y = Max(50, Min(200, by))]
        w2 == IF nowMs - w1.boss.lastShot > 400
              THEN [bossShoot(w1) EXCEPT !.boss.lastShot = nowMs]
              ELSE w1
    IN IF w2.boss.health <= 0
       THEN showVictory(updateUIS([w2 EXCEPT !.gameState.score = @ + BossKillScoreS,
                                             !.ev.defeats = @ + 1]))
       ELSE w2

\* the first index (1-based) at which the sequence of test results is true, or 0:
\* where a loop that breaks at the first hit stops
FirstIndex(hits) ==
  IF \E i \in 1..Len(hits) : hits[i]
  THEN CHOOSE i \in 1..Len(hits) : hits[i] /\ \A j \in 1..(i - 1) : ~hits[j]
  ELSE 0

\* a resolver without the break: the bullet damages every enemy it overlaps
RECURSIVE PlayerBulletsHitEveryEnemy(_, _)
PlayerBulletsHitEveryEnemy(w, k) ==
  IF k >= Len(w.player.bullets) THEN w
  ELSE
    LET bullet == w.player.bullets[k + 1]
        hit == SelectSeq([i \in 1..Len(w.enemies) |-> i],
                         LAMBDA i : checkCollision(bullet, w.enemies[i]))
    IN IF hit # <<>>
       THEN PlayerBulletsHitEveryEnemy(
              [w EXCEPT !.enemies = [i \in 1..Len(w.enemies) |->
                                       IF checkCollision(bullet, w.enemies[i])
                                       THEN [w.enemies[i] EXCEPT !.health = @ - 1]
                                       ELSE w.enemies[i]],
                        !.player.bullets = Splice(@, IndexOf(@, bullet)),
                        !.ev.removed = Append(@, bullet.id),
                        !.ev.damaged = @ \o [j \in 1..Len(hit) |->
                                               <<bullet.id, w.enemies[hit[j]].id, Len(hit)>>]],
              k + 1)
       ELSE PlayerBulletsHitEveryEnemy(w, k + 1)

\* --- checkCollisions, player bullets vs enemies.  A for-of loop reads index k of
\* the live array at each step, so a splice makes it pass over the next element.
RECURSIVE PlayerBulletsHitEnemies(_, _)
PlayerBulletsHitEnemies(w, k) ==
  IF k >= Len(w.player.bullets) THEN w
  ELSE
    LET bullet == w.player.bullets[k + 1]
        e == FirstIndex([j \in 1..Len(w.enemies) |-> checkCollision(bullet, w.enemies[j])])
    IN IF e > 0
       THEN PlayerBulletsHitEnemies(
              [w EXCEPT !.enemies[e].health = @ - 1,
                        !.player.bullets = Splice(@, IndexOf(@, bullet)),
                        !.ev.removed = Append(@, bullet.id),
                        !.ev.damaged = Append(@, <<bullet.id, w.enemies[e].id,
                                                     Overlapped(bullet, w.enemies)>>)], k + 1)
       ELSE PlayerBulletsHitEnemies(w, k + 1)

\* --- player bullets vs boss: the loop ends at the first bullet that overlaps
PlayerBulletsHitBoss(w) ==
  LET k == FirstIndex([j \in 1..Len(w.player.bullets) |-> checkCollision(w.player.bullets[j], w.boss)])
  IN IF k > 0
     THEN [w EXCEPT !.boss.health = @ - 1,
                    !.player.bullets = Splice(@, k - 1),
                    !.ev.removed = Append(@, w.player.bullets[k].id),
                    !.ev.damaged = Append(@, <<w.player.bullets[k].id, w.boss.id, 1>>)]
     ELSE w

\* --- enemy bullets vs player: per enemy, the first bullet that passes the circular
\* test calls playerHit; the splice that follows acts on the array playerHit left
RECURSIVE EnemyBulletsHitPlayer(_, _)
EnemyBulletsHitPlayer(w, i) ==
  IF i > Len(w.enemies) THEN w
  ELSE
    LET k == FirstIndex([j \in 1..Len(w.enemies[i].bullets) |-> HitsPlayer(w, w.enemies[i].bullets[j])])
    IN IF k > 0
       THEN LET bullet == w.enemies[i].bullets[k]
                w1 == playerHit(w, bullet.id, "enemy")
                w2 == [w1 EXCEPT !.enemies[i].bullets = Splice(@, IndexOf(@, bullet)),
                                 !.ev.absorbed = Append(@, bullet.id),
                                 !.ev.inCircle = Append(@, HitsPlayer(w, bullet))]
            IN EnemyBulletsHitPlayer(w2, i + 1)
       ELSE EnemyBulletsHitPlayer(w, i + 1)

\* --- orphan bullets vs player, from the last to the first
OrphanBulletsHitPlayer(w) ==
  LET n == Len(w.orphanBullets)
      hits == {i \in 1..n : HitsPlayer(w, w.orphanBullets[i])}
  IN IF hits # {}
     THEN LET i == CHOOSE j \in hits : \A h \in hits : h <= j
              w1 == playerHit(w, w.orphanBullets[i].id, "orphan")
          IN [w1 EXCEPT !.orphanBullets = Splice(@, i - 1),
                        !.ev.absorbed = Append(@, w.orphanBullets[i].id),
                        !.ev.inCircle = Append(@, HitsPlayer(w, w.orphanBullets[i]))]
     ELSE w

\* --- boss bullets vs player
BossBulletsHitPlayer(w) ==
  LET k == FirstIndex([j \in 1..Len(w.boss.bullets) |-> HitsPlayer(w, w.boss.bullets[j])])
  IN IF k > 0
     THEN LET bullet == w.boss.bullets[k]
              w1 == playerHit(w, bullet.id, "boss")
          IN [w1 EXCEPT !.boss.bullets = Splice(@, IndexOf(@, bullet)),
                        !.ev.absorbed = Append(@, bullet.id),
                        !.ev.inCircle = Append(@, HitsPlayer(w, bullet))]
     ELSE w

\* the bullets of every enemy's list, enemy after enemy
RECURSIVE AllEnemyBullets(_)
AllEnemyBullets(es) ==
  IF es = <<>> THEN <<>> ELSE Head(es).bullets \o AllEnemyBullets(Tail(es))

\* checkCollisions of the scrolling variant
checkCollisions(w) ==
  LET hostile == AllEnemyBullets(w.enemies) \o w.orphanBullets
                   \o (IF w.boss = NULL THEN <<>> ELSE w.boss.bullets)
      w0 == [w EXCEPT !.ev.onPlayer = @ + Len(SelectSeq(hostile, LAMBDA b : HitsPlayer(w, b)))]
      w1 == PlayerBulletsHitEnemies(w0, 0)
      w2 == IF w1.boss # NULL THEN PlayerBulletsHitBoss(w1) ELSE w1
      w3 == EnemyBulletsHitPlayer(w2, 1)
      w4 == OrphanBulletsHitPlayer(w3)
  IN IF w4.boss # NULL THEN BossBulletsHitPlayer(w4) ELSE w4

\* update of the scrolling variant: the stage part (scroll and fairies, or boss)
StageStep(w, deltaTime, draw) ==
  IF ~w.gameState.bossPhase
  THEN spawnEnemies(updateScroll(w), deltaTime, draw)
  ELSE updateBossS(w)

updateS(w, deltaTime, draw) ==
  checkCollisions(
    StageStep(updateParticlesS(updateEnemies(updateBulletsS(updatePlayerS(w)))),
              deltaTime, draw))

\* ------------------------------------------------ the frame driver, per variant

\* requestAnimationFrame(() => this.gameLoop()) assigned to animationId
requestFrame(w) ==
  [w EXCEPT !.rafSeq = @ + 1, !.raf = Append(@, w.rafSeq + 1), !.animationId = w.rafSeq + 1]

\* cancelAnimationFrame(id)
cancelFrame(w, id) == [w EXCEPT !.raf = SelectSeq(@, LAMBDA h : h # id)]

\* update, by variant
Update(w, deltaTime, draw) ==
  IF w.variant = "scrolling" THEN updateS(w, deltaTime, draw) ELSE update(w, deltaTime)

\* the end of gameLoop: (render, then) request the next frame; an exception thrown
\* by update has left the callback before that
AfterUpdate(w) == IF w.ev.threw THEN w ELSE requestFrame(w)

\* the part of gameLoop after its guards: measure, update, render, request
RunFrame(w, currentTime, draw) ==
  AfterUpdate(Update([w EXCEPT !.lastTime = currentTime, !.ev.updates = @ + 1],
                     currentTime - w.lastTime, draw))

\* gameLoop without its pause test
gameLoopIgnoringPause(w, currentTime, draw) ==
  IF ~w.gameState.isRunning THEN w
  ELSE RunFrame(w, IF w.variant = "scrolling" THEN currentTime ELSE w.now, draw)

\* gameLoop without its isRunning test
gameLoopIgnoringStop(w, currentTime, draw) ==
  IF w.variant = "three" /\ w.gameState.isPaused THEN requestFrame(w)
  ELSE IF w.variant = "single" /\ w.gameState.isPaused THEN w
  ELSE RunFrame(w, IF w.variant = "scrolling" THEN currentTime ELSE w.now, draw)

\* gameLoop: the scrolling variant is handed the frame's timestamp and has no
\* pause test; the boss variants read performance.now(); paused, the three-stage
\* variant requests the next frame and the single-boss variant does not
gameLoop(w, currentTime, draw) ==
  IF ~w.gameState.isRunning THEN w
  ELSE IF w.variant = "three" /\ w.gameState.isPaused THEN requestFrame(w)
  ELSE IF w.variant = "single" /\ w.gameState.isPaused THEN w
  ELSE RunFrame(w, IF w.variant = "scrolling" THEN currentTime ELSE w.now, draw)

\* startGame up to its call of gameLoop
StartState(w) ==
  CASE w.variant = "three" ->
         [spawnBoss([w EXCEPT !.overlayShown = TRUE,
                              !.gameState.isRunning = TRUE,
                              !.gameState.isPaused = FALSE,
                              !.gameState.score = 0,
                              !.gameState.lives = 5,
                              !.gameState.stage = 1,
                              !.player.x = SpawnX("three"),
                              !.player.y = SpawnY("three"),
                              !.player.bullets = <<>>,
                              !.enemies = <<>>,
                              !.particles = <<>>,
                              !.enemySpawnTimer = 0], 1)
            EXCEPT !.lastTime = w.now]
    [] w.variant = "single" ->
         spawnBoss([w EXCEPT !.overlayShown = TRUE,
                             !.gameState.isRunning = TRUE,
                             !.gameState.isPaused = FALSE,
                             !.gameState.score = 0,
                             !.gameState.lives = 3,
                             !.player.x = SpawnX("single"),
                             !.player.y = SpawnY("single"),
                             !.player.bullets = <<>>,
                             !.enemies = <<>>,
                             !.particles = <<>>,
                             !.enemySpawnTimer = 0], 1)
    [] OTHER ->
         [updateUIS([w EXCEPT !.overlayShown = TRUE,
                              !.gameState.isRunning = TRUE,
                              !.gameState.isPaused = FALSE,
                              !.gameState.score = 0,
                              !.gameState.lives = 5,
                              !.gameState.scrollY = 192000,
                              !.gameState.bossPhase = FALSE,
                              !.gameState.nextExtend = ExtendStep,
                              !.player.x = SpawnX("scrolling"),
                              !.player.y = SpawnY("scrolling"),
                              !.player.bullets = <<>>,
                              !.enemies = <<>>,
                              !.boss = NULL,
                              !.orphanBullets = <<>>,
                              !.enemySpawnTimer = 0,
                              !.extends = 0,
                              !.bossSpawns = 0,
                              !.spawnedInBossPhase = FALSE])
            EXCEPT !.lastTime = w.now]

\* startGame
startGame(w) == gameLoop(StartState(w), w.now, DefaultDraw)

\* endGame
endGame(w) ==
  IF w.variant = "scrolling"
  THEN [cancelFrame([w EXCEPT !.gameState.isRunning = FALSE], w.animationId)
          EXCEPT !.overlayShown = FALSE]
  ELSE LET w1 == [w EXCEPT !.gameState.isRunning = FALSE, !.gameState.isPaused = FALSE,
                           !.overlayShown = FALSE]
       IN IF w1.animationId # 0 THEN cancelFrame(w1, w1.animationId) ELSE w1

\* togglePause without its isRunning test
togglePauseUnguarded(w) ==
  LET w1 == [w EXCEPT !.gameState.isPaused = ~@]
  IN IF ~w1.gameState.isPaused
     THEN IF w.variant = "three" THEN [w1 EXCEPT !.lastTime = w.now]
          ELSE gameLoop(w1, w.now, DefaultDraw)
     ELSE w1

\* togglePause (the scrolling variant has no pause button)
togglePause(w) ==
  IF ~w.gameState.isRunning THEN w
  ELSE LET w1 == [w EXCEPT !.gameState.isPaused = ~@]
       IN IF ~w1.gameState.isPaused
          THEN IF w.variant = "three" THEN [w1 EXCEPT !.lastTime = w.now]
               ELSE gameLoop(w1, w.now, DefaultDraw)
          ELSE w1

\* restartGame
restartGame(w) ==
  startGame([w EXCEPT !.screenShown = FALSE,
                      !.title = IF w.variant = "three" THEN "Game Over!" ELSE @])

\* the keydown and keyup listeners
keydown(w, key) ==
  IF ~w.gameState.isRunning \/ w.gameState.isPaused THEN w
  ELSE [w EXCEPT !.keys = @ \cup {key},
                 !.isShootingHeld = IF key = "z" THEN TRUE ELSE @,
                 !.isSlowHeld = IF key = "shift" THEN TRUE ELSE @]

keyup(w, key) ==
  [w EXCEPT !.keys = @ \ {key},
            !.isShootingHeld = IF key = "z" THEN FALSE ELSE @,
            !.isSlowHeld = IF key = "shift" THEN FALSE ELSE @]

\* one display refresh: the browser runs the callbacks that were pending when the
\* refresh began, in the order they were requested
RECURSIVE RunCallbacks(_, _, _)
RunCallbacks(w, handles, draw) ==
  IF handles = <<>> THEN w
  ELSE RunCallbacks(gameLoop([w EXCEPT !.ev.threw = FALSE], w.now, draw), Tail(handles), draw)

displayFrame(w, d, draw) ==
  RunCallbacks([w EXCEPT !.now = @ + d, !.raf = <<>>, !.frames = @ + 1], w.raf, draw)

\* ---------------------------------------------------------------- the state
VARIABLES
  variant, patternSets,                         \* which build, and its playlists
  gameState, player, enemies, boss, particles, orphanBullets,
  keys, isShootingHeld, isSlowHeld,
  invulnerableUntil, animationId, lastTime, enemySpawnTimer,
  patternIndex, patternElapsed,
  title, screenShown, overlayShown,             \* the DOM the handlers write
  now, raf, rafSeq,                             \* the browser: clock and frame queue
  frames,                                       \* display refreshes so far
  nextId, ev, bossTime, lastHitAt, extends, bossSpawns, spawnedInBossPhase,
  marisa                                        \* the page's MarisaFlying object, or NULL

vars == <<variant, patternSets, gameState, player, enemies, boss, particles,
          orphanBullets, keys, isShootingHeld, isSlowHeld, invulnerableUntil,
          animationId, lastTime, enemySpawnTimer, patternIndex, patternElapsed,
          title, screenShown, overlayShown, now, raf, rafSeq, frames, nextId, ev, bossTime,
          lastHitAt, extends, bossSpawns, spawnedInBossPhase, marisa>>

\* the variables of the game
gameVars == <<variant, patternSets, gameState, player, enemies, boss, particles,
              orphanBullets, keys, isShootingHeld, isSlowHeld, invulnerableUntil,
              animationId, lastTime, enemySpawnTimer, patternIndex, patternElapsed,
              title, screenShown, overlayShown, now, raf, rafSeq, frames, nextId, ev, bossTime,
              lastHitAt, extends, bossSpawns, spawnedInBossPhase>>

\* the current state as the record the operators above work on
World ==
  [variant |-> variant, patternSets |-> patternSets, gameState |-> gameState,
   player |-> player, enemies |-> enemies, boss |-> boss, particles |-> particles,
   orphanBullets |-> orphanBullets, keys |-> keys, isShootingHeld |-> isShootingHeld,
   isSlowHeld |-> isSlowHeld, invulnerableUntil |-> invulnerableUntil,
   animationId |-> animationId, lastTime |-> lastTime,
   enemySpawnTimer |-> enemySpawnTimer, patternIndex |-> patternIndex,
   patternElapsed |-> patternElapsed, title |-> title, screenShown |-> screenShown,
   overlayShown |-> overlayShown, now |-> now, raf |-> raf, rafSeq |-> rafSeq,
   frames |-> frames,
   nextId |-> nextId, ev |-> ev, bossTime |-> bossTime,
   lastHitAt |-> lastHitAt, extends |-> extends,
   bossSpawns |-> bossSpawns, spawnedInBossPhase |-> spawnedInBossPhase]

\* the handler about to run, with an empty log
Enter(kind) == [World EXCEPT !.ev = NoEvent(kind)]

\* the state is (next) the record r
IsGame(r) ==
  /\ variant = r.variant /\ patternSets = r.patternSets /\ gameState = r.gameState
  /\ player = r.player /\ enemies = r.enemies /\ boss = r.boss
  /\ particles = r.particles /\ orphanBullets = r.orphanBullets /\ keys = r.keys
  /\ isShootingHeld = r.isShootingHeld /\ isSlowHeld = r.isSlowHeld
  /\ invulnerableUntil = r.invulnerableUntil /\ animationId = r.animationId
  /\ lastTime = r.lastTime /\ enemySpawnTimer = r.enemySpawnTimer
  /\ patternIndex = r.patternIndex /\ patternElapsed = r.patternElapsed
  /\ title = r.title /\ screenShown = r.screenShown /\ overlayShown = r.overlayShown
  /\ now = r.now /\ raf = r.raf /\ rafSeq = r.rafSeq /\ frames = r.frames /\ nextId = r.nextId /\ ev = r.ev
  /\ bossTime = r.bossTime /\ lastHitAt = r.lastHitAt /\ extends = r.extends /\ bossSpawns = r.bossSpawns
  /\ spawnedInBossPhase = r.spawnedInBossPhase

\* a page with the game on it and no MarisaFlying object
Is(r) == IsGame(r) /\ marisa = NULL

Commit(r) ==
  /\ variant' = r.variant /\ patternSets' = r.patternSets /\ gameState' = r.gameState
  /\ player' = r.player /\ enemies' = r.enemies /\ boss' = r.boss
  /\ particles' = r.particles /\ orphanBullets' = r.orphanBullets /\ keys' = r.keys
  /\ isShootingHeld' = r.isShootingHeld /\ isSlowHeld' = r.isSlowHeld
  /\ invulnerableUntil' = r.invulnerableUntil /\ animationId' = r.animationId
  /\ lastTime' = r.lastTime /\ enemySpawnTimer' = r.enemySpawnTimer
  /\ patternIndex' = r.patternIndex /\ patternElapsed' = r.patternElapsed
  /\ title' = r.title /\ screenShown' = r.screenShown /\ overlayShown' = r.overlayShown
  /\ now' = r.now /\ raf' = r.raf /\ rafSeq' = r.rafSeq /\ frames' = r.frames
  /\ nextId' = r.nextId /\ ev' = r.ev
  /\ bossTime' = r.bossTime /\ lastHitAt' = r.lastHitAt /\ extends' = r.extends /\ bossSpawns' = r.bossSpawns
  /\ spawnedInBossPhase' = r.spawnedInBossPhase
  /\ marisa' = marisa

\* ------------------------------------------------------- after construction
\* the playlists: the three arrays of part_001, or one outcome of shufflePatterns
Shuffles == {ScriptPool,
             SubSeq(ScriptPool, 5, 12) \o SubSeq(ScriptPool, 1, 4),
             SubSeq(ScriptPool, 10, 12) \o SubSeq(ScriptPool, 1, 9)}

PatternSetsOf(v) ==
  CASE v = "three" -> {<<Boss1Patterns, Boss2Patterns, Boss3Patterns>>}
    [] v = "single" -> {<<sh>> : sh \in Shuffles}
    [] OTHER -> {<<>>}

\* the fields the constructor leaves (the page has just loaded, at time t)
constructor(v, sets, t) ==
  [variant |-> v, patternSets |-> sets,
   gameState |-> [isRunning |-> FALSE, isPaused |-> FALSE, score |-> 0,
                  lives |-> InitialLives(v), stage |-> 1,
                  scrollY |-> 192000, bossPhase |-> FALSE, nextExtend |-> ExtendStep],
   player |-> [x |-> CtorX(v), y |-> CtorY(v), bullets |-> <<>>, lastShot |-> 0],
   enemies |-> <<>>, boss |-> NULL, particles |-> <<>>, orphanBullets |-> <<>>,
   keys |-> {}, isShootingHeld |-> FALSE, isSlowHeld |-> FALSE,
   invulnerableUntil |-> 0, animationId |-> 0, lastTime |-> 0, enemySpawnTimer |-> 0,
   patternIndex |-> 0, patternElapsed |-> 0,
   title |-> "Game Over!", screenShown |-> FALSE, overlayShown |-> FALSE,
   now |-> t, raf |-> <<>>, rafSeq |-> 0, frames |-> 0, nextId |-> 1, ev |-> NoEvent("constructor"),
   bossTime |-> 0, lastHitAt |-> -1, extends |-> 0, bossSpawns |-> 0, spawnedInBossPhase |-> FALSE]

\* ------------------------------------------------------------- the actions
\* the display refreshes d ms after the last event
DisplayFrame(d, draw) ==
  /\ frames < MaxFrames
  /\ Commit(displayFrame(Enter("frame"), d, draw))

\* a click on the nav link
NavClick ==
  /\ Len(raf) < MaxPending /\ rafSeq < MaxHandles
  /\ Commit(startGame(Enter("start")))

\* a click on the close button of the overlay
CloseClick ==
  /\ overlayShown
  /\ Commit(endGame(Enter("end")))

\* a click on the pause button of the overlay
PauseClick ==
  /\ variant \in PauseVariants
  /\ overlayShown
  /\ Len(raf) < MaxPending /\ rafSeq < MaxHandles
  /\ Commit(togglePause(Enter("pause")))

\* a click on the restart button of the game-over screen
RestartClick ==
  /\ screenShown /\ overlayShown
  /\ Len(raf) < MaxPending /\ rafSeq < MaxHandles
  /\ Commit(restartGame(Enter("restart")))

KeyDown(key) == key \notin keys /\ Commit(keydown(Enter("keydown"), key))
KeyUp(key) == key \in keys /\ Commit(keyup(Enter("keyup"), key))

\* ---------------------------------------------------------------------------
\* Runs in progress.  A scene is a state some run reaches: the state startGame
\* leaves, with the positions, bullets and counters of a later moment of play.
\* ---------------------------------------------------------------------------

\* a run of variant v started at time t, its first frame requested
InPlay(v, sets, t) ==
  [requestFrame(StartState(constructor(v, sets, t)))
     EXCEPT !.lastTime = t, !.ev = NoEvent("scene")]

\* a hostile bullet of the boss variants (4 x 8) and of the scrolling variant (12 x 12)
BossBullet(id, x, y, vx, vy) == Bullet(id, x, y, 4, 8, vx, vy, "enemy")
Fairy(id, x, y, vx, vy) == Bullet(id, x, y, 12, 12, vx, vy, "enemy")

\* single-boss and three-stage: the player stands still below the boss while a
\* column of slow bullets comes down on the hit box, two of them side by side,
\* one more every frame after that; the shot key is held down
UnderFire(v, sets, t) ==
  LET w == InPlay(v, sets, t)
      cx == w.player.x + PlayerWidth(v) \div 2
      top == w.player.y + PlayerHeight(v) \div 2 - HitboxRadius - 8
  IN [w EXCEPT !.boss.bullets = <<BossBullet(101, cx - 2, top - 1, 0, 2),
                                  BossBullet(102, cx - 1, top - 1, 0, 2),
                                  BossBullet(103, cx - 2, top - 3, 0, 2),
                                  BossBullet(104, cx - 2, top - 5, 0, 2),
                                  BossBullet(105, cx - 2, top - 7, 0, 2)>>,
               !.keys = {"z"}, !.isShootingHeld = TRUE,
               !.nextId = 200]

\* three-stage: the player has flown up to the boss and hovers where its spiral
\* stream leaves the muzzle
AtTheMuzzle(sets, t) ==
  LET w == InPlay("three", sets, t)
  IN [w EXCEPT !.player.x = CanvasWidth \div 2 + Sway(t) - PlayerWidth("three") \div 2,
               !.player.y = w.boss.y + w.boss.height \div 2 + 20 - PlayerHeight("three") \div 2 + 4,
               !.patternElapsed = 60, !.bossTime = 60, !.nextId = 200]

\* scrolling: the scroll has run out, the boss is out, and the player has flown up
\* onto it, the shot key held down; the boss shot last half a second ago
OnTheBoss(t) ==
  LET w == spawnBossS([InPlay("scrolling", <<>>, t)
                         EXCEPT !.gameState.scrollY = 0, !.gameState.bossPhase = TRUE,
                                !.nextId = 200])
  IN [w EXCEPT !.boss.lastShot = DateNow(t) - 500,
               !.keys = {"z"}, !.isShootingHeld = TRUE,
               !.player.x = w.boss.x + w.boss.width \div 2 - PlayerWidth("scrolling") \div 2,
               !.player.y = w.boss.y + w.boss.height \div 2 - PlayerHeight("scrolling") \div 2]

\* three-stage: the boss of a stage is down to its last four points of health
\* (two hits); the player stands right under it, the shot key held down, and one
\* slow bullet is two frames above the hit box
PointBlank(sets, stage, lives, t) ==
  LET w == spawnBoss([InPlay("three", sets, t)
                        EXCEPT !.gameState.stage = stage,
                               !.gameState.score = (stage - 1) * BossKillScore,
                               !.gameState.lives = lives,
                               !.nextId = 200], stage)
      py == w.boss.y + w.boss.height + 1
      cx == w.player.x + PlayerWidth("three") \div 2
      top == py + PlayerHeight("three") \div 2 - HitboxRadius - 8
  IN [w EXCEPT !.boss.x = CanvasWidth \div 2 - w.boss.width \div 2 + Sway(t),
               !.boss.health = 4,
               !.boss.bullets = <<BossBullet(101, cx - 2, top - 3, 0, 2)>>,
               !.patternElapsed = 2000, !.bossTime = 2000,
               !.player.y = py,
               !.keys = {"z"}, !.isShootingHeld = TRUE]

HitDeltas == {16, 400, 1200, 2000}

InitHits ==
  \/ \E v \in BossVariants : \E sets \in PatternSetsOf(v) : Is(UnderFire(v, sets, 1000))
  \/ Is(AtTheMuzzle(<<Boss1Patterns, Boss2Patterns, Boss3Patterns>>, 1000))
  \/ Is(OnTheBoss(1000))
  \/ Is(PointBlank(<<Boss1Patterns, Boss2Patterns, Boss3Patterns>>, 1, InitialLives("three"),
                   8 * 314 + 8))

NextHits ==
  \/ \E d \in HitDeltas : DisplayFrame(d, DefaultDraw)
  \/ KeyDown("arrowleft")
  \/ KeyUp("arrowleft")

SpecHits == InitHits /\ [][NextHits]_vars

\* the iFrame window of a variant; the scrolling variant sets none, and is held to
\* the shortest
IFrameOf(v) == IF v = "three" THEN IFrame3 ELSE IFrame1

\* C1: in every variant, two hostile-bullet hits less than the iFrame window apart
\* cost one life in total: no life is lost less than the window after the life
\* lost before it.
C1_OneLifePerWindow ==
  \A i \in 1..Len(ev.gaps) : ev.gaps[i] >= IFrameOf(variant)

\* the same, for the variants that keep invulnerableUntil
C1_BossVariants ==
  variant \in BossVariants => C1_OneLifePerWindow

C1_BlockedHit ==
  /\ variant \in BossVariants
  /\ ev.kind = "frame" /\ ev.livesLost = 0
  /\ lastHitAt >= 0 /\ DateNow(now) - lastHitAt < IFrameOf(variant)
  /\ \E i \in 1..Len(boss.bullets) : checkCollision(boss.bullets[i], Hitbox(World))

\* ------------------------------------------------------------- stage scenes
\* a fairy of the scrolling variant as spawnEnemies builds it, some time into its
\* flight: movementType 0 drifts down slowly, 1 falls fast
FairyEnemy(id, x, y, movementType, health, bullets, t) ==
  [id |-> id, x |-> x, y |-> y, width |-> 44, height |-> 44,
   vx |-> 0, vy |-> IF movementType = 0 THEN 1 ELSE 3,
   health |-> health, maxHealth |-> 14, bullets |-> bullets,
   lastShot |-> DateNow(t) - 100, shootCooldown |-> 2000,
   patternType |-> 1, movementType |-> movementType,
   spawnTime |-> DateNow(t) - 3000, targetY |-> 0]

PlayerShot(id, x, y) == Bullet(id, x, y, 8, 16, 0, -12, "player")

\* half way up the stage a fast fairy has caught up with a slow one of the same
\* lane; three shots are under way: one about to enter both boxes, one far off to
\* the side, one about to enter the lower box only
TwoFairies(t, order) ==
  LET w == InPlay("scrolling", <<>>, t)
      shots == <<PlayerShot(21, 350, 140), PlayerShot(22, 600, 300), PlayerShot(23, 350, 152)>>
  IN [w EXCEPT !.gameState.scrollY = 96000,
               !.enemies = <<FairyEnemy(11, 340, 100, 0, 3, <<>>, t),
                             FairyEnemy(12, 340, 90, 1, 1, <<>>, t)>>,
               !.player.bullets = [i \in 1..3 |-> shots[order[i]]],
               !.player.lastShot = DateNow(t) - 40,
               !.nextId = 200]

\* a fairy with one point of health left hangs above the player, three of its
\* bullets in the air, one of them coming straight down on the player; a shot is
\* about to reach the fairy
DyingFairy(t) ==
  LET w == InPlay("scrolling", <<>>, t)
      cx == w.player.x + PlayerWidth("scrolling") \div 2
      cy == w.player.y + PlayerHeight("scrolling") \div 2
  IN [w EXCEPT !.gameState.scrollY = 96000,
               !.enemies = <<FairyEnemy(13, cx - 22, cy - 160, 0, 1,
                                        <<Fairy(31, cx - 6, cy - 24, 0, 3),
                                          Fairy(32, cx - 66, cy - 120, -2, 2),
                                          Fairy(33, cx + 34, cy - 120, 2, 2)>>, t)>>,
               !.player.bullets = <<PlayerShot(24, cx - 4, cy - 110)>>,
               !.player.lastShot = DateNow(t) - 40,
               !.nextId = 200]

\* single-boss and three-stage: the player has flown to the top edge, above the
\* boss at the far right of its sway, the shot key held down: the shots aimed at
\* the boss centre go down
AboveTheBoss(v, sets) ==
  LET t == 4 * 314
      w == InPlay(v, sets, t)
  IN [w EXCEPT !.boss.x = CanvasWidth \div 2 - w.boss.width \div 2 + Sway(t),
               !.player.x = CanvasWidth \div 2 + Sway(t) - PlayerWidth(v) \div 2,
               !.player.y = 0,
               !.keys = {"z"}, !.isShootingHeld = TRUE,
               !.nextId = 200]

\* later in such a run: the boss swayed out of the way of one of these shots
\* (its position follows performance.now(), also across a pause or a slow frame),
\* and the shot has come down to the bottom edge; the bullet a radial volley
\* sends out at angle 0 (vy = 0) has come to the right edge
StrayShot(v, sets, t) ==
  LET w == InPlay(v, sets, t)
  IN [w EXCEPT !.player.x = CanvasWidth \div 2 + 80 - PlayerWidth(v) \div 2,
               !.player.y = 0,
               !.player.bullets = <<Bullet(61, CanvasWidth \div 2 + 85, CanvasHeight - 2,
                                           4, 8, 0, 7, "player")>>,
               !.boss.bullets = <<BossBullet(62, CanvasWidth + 19, w.boss.y + w.boss.height \div 2,
                                             2, 0)>>,
               !.nextId = 200]

StageDeltas == {16, 600}
StageDraws == {d \in EnemyDraws : d.patternType = 1 /\ d.shootCooldown = 1200 /\ d.lane # 1
                                  /\ d.movementType = 1}

\* the playlists of the stage scenes: the scripted ones of three-stage, the pool
\* in its written order for single-boss
StageSets(v) ==
  IF v = "three" THEN {<<Boss1Patterns, Boss2Patterns, Boss3Patterns>>} ELSE {<<ScriptPool>>}

InitStage ==
  \/ \E order \in {<<1, 2, 3>>, <<1, 3, 2>>, <<2, 1, 3>>} : Is(TwoFairies(1000, order))
  \/ Is(DyingFairy(1000))
  \/ \E v \in BossVariants : \E sets \in StageSets(v) :
        \/ Is(UnderFire(v, sets, 1000))
        \/ Is(AboveTheBoss(v, sets))
        \/ Is(StrayShot(v, sets, 1000))

NextStage ==
  \/ \E d \in StageDeltas : \E draw \in StageDraws : DisplayFrame(d, draw)
  \/ KeyDown("z")
  \/ KeyUp("z")

SpecStage == InitStage /\ [][NextStage]_vars

\* C2: a player bullet is resolved at most once per frame: it damages at most one
\* target even when it overlaps two enemy boxes, and the bullets spliced out of
\* player.bullets are exactly the bullets that did damage, each once; no other
\* bullet goes in its place.  (In the boss variants the enemy list stays empty.)
C2_OneTargetPerBullet ==
  /\ \A i, j \in 1..Len(ev.damaged) : ev.damaged[i][1] = ev.damaged[j][1] => i = j
  /\ ev.removed = [i \in 1..Len(ev.damaged) |-> ev.damaged[i][1]]
  /\ \A i \in 1..Len(ev.removed) : ev.removed[i] \notin Ids(player.bullets)
  /\ variant \in BossVariants => enemies = <<>>

C2_BulletInTwoBoxes ==
  /\ variant = "scrolling" /\ ev.kind = "frame"
  /\ \E i \in 1..Len(ev.damaged) : ev.damaged[i][3] >= 2
  /\ 22 \in Ids(player.bullets)

Elements(seq) == {seq[i] : i \in 1..Len(seq)}

\* the bullets of the enemies that are dead: updateEnemies removes these enemies in
\* the next frame
RECURSIVE DeadEnemyBullets(_)
DeadEnemyBullets(es) ==
  IF es = <<>> THEN {}
  ELSE (IF Head(es).health <= 0 THEN Elements(Head(es).bullets) ELSE {})
       \cup DeadEnemyBullets(Tail(es))

\* C5: scrolling variant, one update per refresh: a dead enemy is removed in the
\* next frame, and each bullet of its list is afterwards in orphanBullets where its
\* own velocity took it in that frame, with that velocity (unless that frame's
\* bounds test or a bomb removed it); an orphan bullet advances by exactly (vx, vy)
\* per frame until the bounds test, a hit or a bomb removes it.
C5_OrphansKeepMoving ==
  [][(variant = "scrolling" /\ ev'.kind = "frame" /\ ev'.updates = 1) =>
       /\ \A e \in Elements(enemies) : e.health <= 0 => e.id \notin Ids(enemies')
       /\ \A b \in DeadEnemyBullets(enemies) \cup Elements(orphanBullets) :
            \/ /\ Integrate(b) \in Elements(orphanBullets')
               /\ b.id \notin Ids(AllEnemyBullets(enemies'))
            \/ /\ b.id \notin Ids(orphanBullets')
               /\ OutOfBounds(Integrate(b)) \/ ev'.livesLost > 0]_vars

C5_OrphanCostsALife ==
  /\ variant = "scrolling" /\ ev.kind = "frame"
  /\ \E i \in 1..Len(ev.hitBy) : ev.hitBy[i] = <<31, "orphan">>
  /\ gameState.score = EnemyKillScore

\* every bullet of every list
AllBullets ==
  Elements(player.bullets) \cup Elements(AllEnemyBullets(enemies))
    \cup Elements(orphanBullets)
    \cup (IF boss = NULL THEN {} ELSE Elements(boss.bullets))

Occurrences(seq, x) == Cardinality({i \in 1..Len(seq) : seq[i] = x})

Margin(b) == IF variant = "scrolling" THEN 10 ELSE b.height

\* C7: a bullet whose y is beyond the playfield height plus its margin is in no
\* list after the next updateBullets pass, and no bullet enters a list under an
\* id that was used before.
C7_GoneBelowTheField ==
  [][(ev'.kind = "frame" /\ ev'.updates >= 1) =>
       /\ \A b \in AllBullets :
            b.y > CanvasHeight + Margin(b) => \A c \in AllBullets' : c.id # b.id
       /\ \A c \in AllBullets' :
            (\A b \in AllBullets : b.id # c.id) => c.id >= nextId]_vars

\* --------------------------------------------------------- the scheduler
\* playlists whose patterns all last as long: two of 4000 ms, three of 5000 ms
UniformLists == {<<aimedVolley, simpleRain>>, <<radialBurst, waveRings, curtainRain>>}
SchedDeltas == {16, 3000, 5000}
LongestDelta == CHOOSE d \in SchedDeltas : \A e \in SchedDeltas : e <= d

InitSched ==
  \E v \in BossVariants : \E list \in UniformLists :
    Is(InPlay(v, IF v = "three" THEN <<list, list, list>> ELSE <<list>>, 1000))

NextSched ==
  \/ \E d \in SchedDeltas : DisplayFrame(d, DefaultDraw)
  \/ KeyDown("arrowleft")
  \/ KeyUp("arrowleft")

SpecSched == InitSched /\ [][NextSched]_vars

\* the playlist the scheduler reads, its length K and the duration D of its entries
CurrentList == IF variant = "three" THEN patternSets[gameState.stage] ELSE patternSets[1]
K == Len(CurrentList)
D == CurrentList[1].duration
UniformRun ==
  /\ variant \in BossVariants /\ boss # NULL
  /\ \A i \in 1..K : CurrentList[i].duration = D

\* C3 as stated: in the frame in which the accumulated frame time of a boss
\* reaches K D, the scheduler has cycled back to playlist entry 0 and
\* patternElapsed is below D.
C3_BackAtEntryZeroAtKD ==
  [][(UniformRun /\ UniformRun' /\ boss'.id = boss.id
        /\ bossTime < K * D /\ bossTime' >= K * D) =>
       /\ patternIndex' > 0 /\ patternIndex' % K = 0
       /\ patternElapsed' < D]_vars

\* C3, amended: patternElapsed is below D after every frame; the scheduler moves
\* on by one entry in the frame in which the time accumulated since it last moved
\* on reaches D, and drops what is beyond D; so the time accumulated up to the
\* start of the current entry is at least patternIndex D and exceeds it by less
\* than one frame delta per entry passed, and the scheduler is back at entry 0
\* (patternIndex = K) no earlier than at K D.
C3_MovesOnAfterDSinceLastMove ==
  UniformRun =>
    /\ patternElapsed < D
    /\ patternIndex * D <= bossTime - patternElapsed
    /\ bossTime - patternElapsed <= patternIndex * (D + LongestDelta - 1)

C3_BackAtEntryZeroLate ==
  /\ UniformRun /\ ev.kind = "frame"
  /\ patternIndex = K /\ patternElapsed = 0
  /\ bossTime > K * D

\* ------------------------------------------------------- boss succession
BossDeltas == {16, 600}

InitBoss ==
  \E stage \in 1..MaxStage : \E lives \in {1, InitialLives("three")} :
    Is(PointBlank(<<Boss1Patterns, Boss2Patterns, Boss3Patterns>>, stage, lives, 8 * 314 + 8))

NextBoss ==
  \/ \E d \in BossDeltas : DisplayFrame(d, DefaultDraw)
  \/ KeyDown("z")
  \/ KeyUp("z")

SpecBoss == InitBoss /\ [][NextBoss]_vars

\* a frame of the three-stage variant in which a player bullet takes the boss's
\* health to 0 or below while a stage remains
DefeatFrame ==
  /\ variant = "three" /\ ev'.kind = "frame" /\ ev'.defeats >= 1
  /\ gameState.stage < MaxStage

\* the health a boss starts stage 2 and stage 3 with
NextHealth(stage) == IF stage = 2 THEN 1500 ELSE 2000

\* the hits the frame's log holds against target id
HitsOn(log, id) == Cardinality({i \in 1..Len(log) : log[i][2] = id})

\* C4 as stated: in the frame of the defeat, lives grows by exactly 1, score by
\* exactly 1000, stage by exactly 1, and there is a new boss with health =
\* maxHealth = the next stage's value, no bullets, patternIndex = patternElapsed = 0.
C4_SuccessionWithinTheFrame ==
  [][DefeatFrame =>
       /\ gameState'.lives = gameState.lives + 1
       /\ gameState'.score = gameState.score + 1000
       /\ gameState'.stage = gameState.stage + 1
       /\ boss' # NULL /\ boss'.id # boss.id
       /\ boss'.maxHealth = NextHealth(gameState'.stage)
       /\ boss'.health = boss'.maxHealth
       /\ boss'.bullets = <<>>
       /\ patternIndex' = 0 /\ patternElapsed' = 0]_vars

\* C4, amended: the defeat itself adds exactly one life, 1000 points and one
\* stage and spawns the next boss at full health with no bullets and the
\* scheduler at 0; over the whole frame, lives is one more less the lives lost to
\* hostile hits handled earlier in that frame, and the new boss's health is its
\* full health less 2 for every later player bullet of the same loop that hit it.
C4_SuccessionAndTheRestOfTheFrame ==
  [][DefeatFrame =>
       /\ ev'.defeats = 1
       /\ gameState'.lives = gameState.lives + 1 - ev'.livesLost
       /\ gameState'.score = gameState.score + 1000
       /\ gameState'.stage = gameState.stage + 1
       /\ boss' # NULL /\ boss'.id # boss.id
       /\ boss'.maxHealth = NextHealth(gameState'.stage)
       /\ boss'.health = boss'.maxHealth - 2 * HitsOn(ev'.damaged, boss'.id)
       /\ boss'.bullets = <<>>
       /\ patternIndex' = 0 /\ patternElapsed' = 0]_vars

C4_NewBossHitInItsFirstFrame ==
  /\ variant = "three" /\ ev.kind = "frame" /\ ev.defeats = 1
  /\ gameState.stage = 3 /\ boss # NULL
  /\ boss.maxHealth = 2000 /\ boss.health = 1998
  /\ ev.livesLost = 1

\* "win" is in the log of the frame's outcomes
Won(log) == \E i \in 1..Len(log) : log[i] = "win"

LastLife(v, sets, t) ==
  IF v = "scrolling" THEN [OnTheBoss(t) EXCEPT !.gameState.lives = 1]
  ELSE [UnderFire(v, sets, t) EXCEPT !.gameState.lives = 1]

LifeDeltas == {16, 2000}

\* the page has just loaded, or a run is on its last life
Init ==
  \E v \in Variants : \E sets \in PatternSetsOf(v) :
    sets \in {<<ScriptPool>>, <<Boss1Patterns, Boss2Patterns, Boss3Patterns>>, <<>>}
      /\ (Is(constructor(v, sets, 0)) \/ Is(LastLife(v, sets, 1000)))

Next ==
  \/ \E d \in LifeDeltas : DisplayFrame(d, DefaultDraw)
  \/ NavClick
  \/ CloseClick
  \/ PauseClick
  \/ RestartClick

Spec == Init /\ [][Next]_vars

\* C8: after any sequence of start, pause toggle, close, restart and frame
\* callbacks at most one gameLoop callback is pending, and update runs at most
\* once per display refresh.
C8_OnePendingCallback ==
  /\ Len(raf) <= 1
  /\ ev.kind = "frame" => ev.updates <= 1

\* what the simulation owns
Simulation ==
  <<player.x, player.y, player.bullets, enemies, orphanBullets, boss,
    patternIndex, patternElapsed, particles,
    gameState.score, gameState.lives, gameState.stage>>

\* C9: in the variants with a pause button, no step taken while the game is and
\* stays paused (a frame callback, a key) changes the simulation: position, bullet
\* lists, boss, scheduler cursor, particles, score, lives and stage are at resume
\* what they were at pause.
C9_PausedIsFrozen ==
  [][gameState.isPaused /\ gameState'.isPaused => Simulation' = Simulation]_vars

C9_FrameWhilePaused ==
  /\ variant \in PauseVariants
  /\ gameState.isRunning /\ gameState.isPaused
  /\ ev.kind = "frame" /\ frames >= 2
  /\ boss # NULL /\ Len(boss.bullets) > 0

\* every field of the game object
Game ==
  <<gameState, player, enemies, boss, particles, orphanBullets, keys, isShootingHeld,
    isSlowHeld, invulnerableUntil, animationId, lastTime, enemySpawnTimer,
    patternIndex, patternElapsed>>

\* C10: a hit that leaves no life ends the run in that frame, and from then on
\* neither the pending frame callbacks nor the pause button change any field of
\* the game until start or restart.
C10_GameOverIsFinal ==
  [][/\ ev'.ranOut => ~gameState'.isRunning
     /\ (~gameState.isRunning /\ ev'.kind \in {"frame", "pause"}) => Game' = Game]_vars

C10_CallbackAfterGameOver ==
  /\ ~gameState.isRunning /\ screenShown /\ gameState.lives <= 0
  /\ ev.kind = "frame" /\ ev.updates = 0 /\ lastHitAt >= 0


\* C12: a start (nav link from idle or from a terminal state, or the restart
\* button) leaves the game running and not paused with score 0, the initial
\* lives, stage 1, the player at its spawn position and every collection empty:
\* player bullets, enemies, particles, orphan bullets, boss bullets.
C12_StartResetsTheGame ==
  [][ev'.kind \in {"start", "restart"} =>
       /\ gameState'.isRunning /\ ~gameState'.isPaused
       /\ gameState'.score = 0
       /\ gameState'.lives = InitialLives(variant)
       /\ variant = "three" => gameState'.stage = 1
       /\ player'.x = SpawnX(variant) /\ player'.y = SpawnY(variant)
       /\ player'.bullets = <<>>
       /\ enemies' = <<>>
       /\ particles' = <<>>
       /\ orphanBullets' = <<>>
       /\ boss' = NULL \/ boss'.bullets = <<>>]_vars



\* ------------------------------------------------------------- player moves
\* a run in progress: the player has flown to two pixels inside the top-left or
\* the bottom-right corner of the playfield and holds the arrow keys of chord
AtTheCorner(v, sets, t, corner, chord) ==
  LET w == InPlay(v, sets, t)
  IN [w EXCEPT !.player.x = IF corner = "topleft" THEN 2
                            ELSE CanvasWidth - PlayerWidth(v) - 2,
               !.player.y = IF corner = "topleft" THEN 2
                            ELSE CanvasHeight - PlayerHeight(v) - 2,
               !.keys = chord,
               !.nextId = 200]

InitMove ==
  \E v \in Variants : \E sets \in StageSets(v) \cup {<<>>} :
    /\ sets \in PatternSetsOf(v)
    /\ \/ Is(constructor(v, sets, 0))
       \/ \E corner \in {"topleft", "bottomright"} :
          \E chord \in SUBSET {"arrowleft", "arrowright", "arrowup", "arrowdown"} :
            Is(AtTheCorner(v, sets, 1000, corner, chord))
       \/ Is(LastLife(v, sets, 1000))

NextMove ==
  \/ DisplayFrame(16, DefaultDraw)
  \/ KeyDown("shift")
  \/ KeyUp("shift")
  \/ NavClick
  \/ RestartClick

SpecMove == InitMove /\ [][NextMove]_vars

\* C13: in every reachable state the player is inside the playfield:
\* 0 <= x <= W - width and 0 <= y <= H - height, whatever keys are held (also
\* opposite ones, also in slow mode), across starts and restarts.
C13_PlayerInsideThePlayfield ==
  /\ 0 <= player.x /\ player.x <= CanvasWidth - PlayerWidth(variant)
  /\ 0 <= player.y /\ player.y <= CanvasHeight - PlayerHeight(variant)

C13_HeldAgainstTheCorner ==
  /\ ev.kind = "frame" /\ ev.updates >= 1
  /\ {"arrowleft", "arrowup"} \subseteq keys
  /\ player.x = 0 /\ player.y = 0


\* C14: ending a run with the close button (endGame) empties every collection
\* the game owns (player bullets, hostile bullets, particles, enemies, the boss)
\* before it returns, and leaves no animation-frame callback pending.
C14_EndLeavesNothingBehind ==
  [][ev'.kind = "end" =>
       /\ player'.bullets = <<>>
       /\ enemies' = <<>>
       /\ orphanBullets' = <<>>
       /\ particles' = <<>>
       /\ boss' = NULL
       /\ raf' = <<>>]_vars


\* ------------------------------------------------------- playlists as given
\* the page loads with the playlists of boss-patterns as shipped (single-boss:
\* the shuffle that starts with aimedVolley), or with the first playlist edited:
\* emptied, or its first pattern given a duration of zero or below
InitConfig ==
  \E v \in BossVariants :
    \E first \in {IF v = "three" THEN Boss1Patterns
                                  ELSE SubSeq(ScriptPool, 5, 12) \o SubSeq(ScriptPool, 1, 4),
                  <<>>,
                  <<[aimedVolley EXCEPT !.duration = 0], simpleRain>>,
                  <<[aimedVolley EXCEPT !.duration = -5000], simpleRain>>} :
      Is(constructor(v, IF v = "three" THEN <<first, Boss2Patterns, Boss3Patterns>>
                                       ELSE <<first>>, 0))

NextConfig ==
  \/ \E d \in BossDeltas : DisplayFrame(d, DefaultDraw)
  \/ NavClick

SpecConfig == InitConfig /\ [][NextConfig]_vars

\* a playlist the scheduler has a current pattern and a time budget for
ValidPlaylist(list) ==
  /\ Len(list) > 0
  /\ \A i \in 1..Len(list) : list[i].duration > 0

\* C15: a game set up with an empty playlist, or with a pattern whose duration is
\* zero or negative, is rejected at set-up: it never runs, and no update (and so
\* no scheduler tick) is ever made against it.
C15_InvalidPlaylistNeverTicked ==
  (\E i \in 1..Len(patternSets) : ~ValidPlaylist(patternSets[i])) =>
     /\ ~gameState.isRunning
     /\ ev.updates = 0


\* ------------------------------------------------------------------ pauses
\* the boss variants, the player about to be hit, the shot key held down; the
\* pause button is clicked between frames (single-boss: the shuffle that starts
\* with aimedVolley)
InitPause ==
  \/ Is(UnderFire("single", <<SubSeq(ScriptPool, 5, 12) \o SubSeq(ScriptPool, 1, 4)>>, 1000))
  \/ Is(UnderFire("three", <<Boss1Patterns, Boss2Patterns, Boss3Patterns>>, 1000))

NextPause ==
  \/ \E d \in HitDeltas : DisplayFrame(d, DefaultDraw)
  \/ PauseClick

SpecPause == InitPause /\ [][NextPause]_vars

\* what is left of the invulnerability window and of the shot cooldown
WindowLeft == Max(0, invulnerableUntil - DateNow(now))
CooldownLeft == Max(0, player.lastShot + ShootCooldown3 - DateNow(now))

\* C16: time spent paused consumes neither the invulnerability window nor the shot
\* cooldown: what is left of each is the same after a display refresh that found
\* the game paused as before it.
C16_PauseKeepsTheWindow ==
  [][(variant \in BossVariants /\ gameState.isRunning /\ gameState.isPaused
        /\ ev'.kind = "frame") =>
       /\ WindowLeft' = WindowLeft
       /\ CooldownLeft' = CooldownLeft]_vars


\* the ids of the bullets of every list
AllBulletIds == {b.id : b \in AllBullets}

\* C17 as stated: boss variants: a frame in which a hostile bullet hits the player
\* outside the invulnerability window registers exactly one hit: lives is one
\* less after the frame, invulnerableUntil is the time of the hit plus the
\* variant's window (1200 ms single-boss, 2000 ms three-stage), and the bullet
\* that hit is in no bullet list.
C17_OneHitOneLife ==
  [][(variant \in BossVariants /\ ev'.kind = "frame" /\ ev'.hitBy # <<>>) =>
       /\ ev'.livesLost = 1 /\ Len(ev'.hitBy) = 1
       /\ gameState'.lives = gameState.lives - 1
       /\ invulnerableUntil' = DateNow(now') + IFrameOf(variant)
       /\ ev'.hitBy[1][1] \notin AllBulletIds']_vars

\* C17, amended: as above, but the life the hit takes is one of two changes the
\* frame can make to lives: the three-stage variant adds a life for a boss
\* defeated later in the same frame.
C17_OneHitOneLifeLessDefeats ==
  [][(variant \in BossVariants /\ ev'.kind = "frame" /\ ev'.hitBy # <<>>) =>
       /\ ev'.livesLost = 1 /\ Len(ev'.hitBy) = 1
       /\ gameState'.lives = gameState.lives - 1
                               + (IF variant = "three" THEN ev'.defeats ELSE 0)
       /\ invulnerableUntil' = DateNow(now') + IFrameOf(variant)
       /\ ev'.hitBy[1][1] \notin AllBulletIds']_vars

C17_HitRegistered ==
  /\ variant = "three" /\ ev.kind = "frame"
  /\ ev.hitBy = <<<<101, "boss">>>> /\ ev.defeats = 0
  /\ gameState.lives = InitialLives("three") - 1
  /\ invulnerableUntil = DateNow(now) + IFrame3


\* the hostile bullets of every pool: the enemies' lists, the orphan pool, the
\* boss's list
HostileBullets ==
  Elements(AllEnemyBullets(enemies)) \cup Elements(orphanBullets)
    \cup (IF boss = NULL THEN {} ELSE Elements(boss.bullets))

\* C18: three-stage and scrolling variants: after a frame in which the player
\* lost a life, no pool holds a hostile bullet.
C18_BombClearsEveryPool ==
  (variant \in {"three", "scrolling"} /\ ev.kind = "frame" /\ ev.livesLost >= 1)
    => HostileBullets = {}

C18_BulletsClearedByTheBomb ==
  /\ variant = "scrolling" /\ ev.kind = "frame" /\ ev.updates = 1
  /\ ev.livesLost = 1 /\ gameState.isRunning
  /\ Len(particles) >= 6


\* C19: boss variants: after the last boss is defeated and this.boss is null, no
\* later iteration of the player-bullet loop reads a field of the boss: no frame
\* ends in a TypeError, however many player bullets are left in the list.
C19_NoReadOfANullBoss ==
  variant \in BossVariants => ~ev.threw


\* C20: three-stage: a run ends in one terminal outcome: in a frame in which a
\* hit takes the last life, no boss defeat takes effect (no score bonus, no bonus
\* life, no stage advance, no next boss, no victory): after it lives is 0 and the
\* game-over screen does not read Victory.
C20_GameOverExcludesTheDefeat ==
  [][(variant = "three" /\ ev'.kind = "frame" /\ ev'.ranOut) =>
       /\ ev'.defeats = 0
       /\ gameState'.lives = 0
       /\ gameState'.score = gameState.score
       /\ gameState'.stage = gameState.stage
       /\ boss' # NULL /\ boss'.id = boss.id
       /\ ~Won(ev'.outcomes) /\ title' # "Victory!"]_vars


\* C21: the player-bullet pass leaves no overlapping bullet unprocessed: after a
\* frame (one update, no boss defeated or replaced in it) no bullet still in
\* player.bullets overlaps the boss, also when the bullet before it in the list
\* was removed in the same pass.
C21_NoOverlappingBulletLeft ==
  (ev.kind = "frame" /\ ev.updates = 1 /\ ~ev.threw /\ ev.defeats = 0 /\ boss # NULL) =>
     \A b \in Elements(player.bullets) : ~checkCollision(b, boss)


\* C22 as stated: patternIndex is always an index of the playlist:
\* 0 <= patternIndex < playlist length, after any number of rotations.
C22_IndexInsideThePlaylist ==
  UniformRun => (0 <= patternIndex /\ patternIndex < K)

\* C22, amended: patternIndex counts the rotations and is never negative; it is
\* reduced modulo the playlist length where it is read, so the entry the
\* scheduler reads is always an entry of the playlist.
C22_IndexReadModuloLength ==
  UniformRun =>
    /\ 0 <= patternIndex
    /\ (patternIndex % K) + 1 \in DOMAIN CurrentList

C22_IndexPastTheEnd ==
  /\ UniformRun /\ ev.kind = "frame"
  /\ patternIndex > K


\* a bullet of the boss variants that no later updateBullets pass can remove: a
\* player bullet below the field that goes straight down (its filter tests the
\* top, the left and the right), or a boss bullet beyond the left or right edge
\* that travels level (its filter tests the top and the bottom)
StuckPlayerBullet(b) ==
  /\ b.y > CanvasHeight + b.height
  /\ b.vx = 0 /\ b.vy > 0
  /\ b.x >= -20 /\ b.x <= CanvasWidth + 20
StuckBossBullet(b) ==
  /\ b.x < -20 \/ b.x > CanvasWidth + 20
  /\ b.vy = 0 /\ b.vx # 0
  /\ KeepBossBullet(b)

\* C23: boss variants: every moving bullet is removed in the end: no list holds
\* a bullet that has left the playfield and that the bounds tests of updateBullets
\* will never catch, whichever edge it left by, for player and boss bullets alike.
C23_NoBulletLeftBehind ==
  variant \in BossVariants =>
    /\ \A b \in Elements(player.bullets) : ~StuckPlayerBullet(b)
    /\ boss # NULL => \A b \in Elements(boss.bullets) : ~StuckBossBullet(b)


\* C24: boss variants: the scheduler's clock advances only by play time: while
\* a boss lives, the frame time handed to updateBoss in a step (a display refresh
\* or a click on the pause button) is the time that passed in that step if the
\* game was running and not paused before it, and none otherwise; so the first
\* frame after a resume adds no paused time and the pause rotates no pattern.
C24_SchedulerRunsOnPlayTime ==
  [][(variant \in BossVariants /\ gameState.isRunning
        /\ boss # NULL /\ boss' # NULL /\ boss'.id = boss.id
        /\ ev'.kind \in {"frame", "pause"}) =>
       bossTime' - bossTime = (IF gameState.isPaused THEN 0 ELSE now' - now)]_vars


\* C25: boss variants: the first update of a run is handed no time from before
\* start was invoked: when the nav link's or the restart button's handler
\* returns, the scheduler stands at patternIndex 0 with patternElapsed 0.
C25_StartHandsOverNoEarlierTime ==
  (variant \in BossVariants /\ ev.kind \in {"start", "restart"} /\ boss # NULL) =>
     /\ patternIndex = 0
     /\ patternElapsed = 0
     /\ bossTime = 0


\* C26: boss variants: while the game is paused the frame driver keeps a
\* next-frame callback scheduled: after a display refresh of a running, paused
\* game a callback is pending.
C26_PausedLoopKeepsACallback ==
  (variant \in PauseVariants /\ ev.kind = "frame"
     /\ gameState.isRunning /\ gameState.isPaused) => raf # <<>>



\* C27 as stated: boss variants: on each scheduler tick the active pattern's
\* spawn is called with tick equal to patternElapsed as it stood before the
\* frame's delta is added; the first tick of a newly active pattern sees tick = 0.
C27_TickIsElapsedBeforeTheDelta ==
  [][(UniformRun /\ ev'.kind = "frame" /\ ev'.updates = 1) =>
       ev'.ticks = <<patternElapsed>>]_vars

\* C27, amended: the spawn is called once per update with tick equal to
\* patternElapsed after the frame's delta has been added, so the first tick of a
\* newly active pattern sees that frame's delta and the tick of a pattern's last
\* frame is at least its duration.
C27_TickIsElapsedAfterTheDelta ==
  [][(UniformRun /\ ev'.kind = "frame" /\ ev'.updates = 1) =>
       /\ ev'.ticks = <<patternElapsed + (now' - lastTime)>>
       /\ patternIndex' # patternIndex => ev'.ticks[1] >= D]_vars

C27_FirstTickOfTheNextPattern ==
  /\ UniformRun /\ ev.kind = "frame" /\ ev.updates = 1
  /\ patternIndex = 1 /\ patternElapsed = 16 /\ ev.ticks = <<16>>


\* the ids of the bullets of every list, list after list
EveryListIds ==
  IdSeq(player.bullets \o AllEnemyBullets(enemies) \o orphanBullets
          \o (IF boss = NULL THEN <<>> ELSE boss.bullets))

\* C28: scrolling variant, one update per refresh: every bullet that is in a
\* list when the frame begins is integrated exactly once in that frame, the
\* bullets of an enemy removed in that frame included, and after the frame every
\* bullet is in exactly one list, once.
C28_IntegratedOnceInOneList ==
  [][(variant = "scrolling" /\ ev'.kind = "frame" /\ ev'.updates = 1) =>
       /\ \A b \in AllBullets : Occurrences(ev'.integrated, b.id) = 1
       /\ \A c \in AllBullets' : Occurrences(EveryListIds', c.id) = 1]_vars

C28_MovedToTheOrphansIntegratedOnce ==
  /\ variant = "scrolling" /\ ev.kind = "frame" /\ ev.updates = 1
  /\ ev.orphaned # {}
  /\ \A id \in ev.orphaned :
       /\ Occurrences(ev.integrated, id) = 1
       /\ Occurrences(IdSeq(orphanBullets), id) = 1
       /\ Occurrences(EveryListIds, id) = 1


\* C29: boss variants: a frame that ends inside the invulnerability window
\* takes no life, leaves invulnerableUntil as it was and consumes no boss
\* bullet that overlaps the player: the overlap does not fire.
C29_NoEffectInsideTheWindow ==
  [][(variant \in BossVariants /\ ev'.kind = "frame" /\ ev'.updates = 1
        /\ DateNow(now') < invulnerableUntil) =>
       /\ ev'.livesLost = 0
       /\ invulnerableUntil' = invulnerableUntil
       /\ ev'.absorbed = <<>>]_vars


\* C30: every variant: lives is never below 0, and a frame takes at most one
\* life, however many hostile bullets overlap the player in it.
C30_AtMostOneLifePerFrame ==
  /\ gameState.lives >= 0
  /\ ev.kind = "frame" => ev.livesLost <= 1


C30_ManyBulletsOneLife ==
  /\ variant = "scrolling" /\ ev.kind = "frame" /\ ev.updates = 1
  /\ ev.onPlayer >= 2 /\ ev.livesLost = 1


\* C31: three-stage variant: the stage ordinal is within 1..maxStage in every
\* state, the frame of the last boss's defeat and the states after victory
\* included.
C31_StageInsideItsRange ==
  variant = "three" => (1 <= gameState.stage /\ gameState.stage <= MaxStage)


\* ------------------------------------------------------- the firing cadence
\* radialBurst has been active for a little less than one firing window
BurstList == <<radialBurst, waveRings, curtainRain>>
CadenceStarts == {561, 566, 584}
CadenceDeltas == {8, 16, 17, 33}

InitCadence ==
  \E v \in BossVariants : \E e \in CadenceStarts :
    Is([InPlay(v, IF v = "three" THEN <<BurstList, BurstList, BurstList>> ELSE <<BurstList>>, 1000)
          EXCEPT !.patternElapsed = e, !.bossTime = e])

NextCadence ==
  \/ \E d \in CadenceDeltas : DisplayFrame(d, DefaultDraw)
  \/ KeyDown("arrowleft")
  \/ KeyUp("arrowleft")

SpecCadence == InitCadence /\ [][NextCadence]_vars

\* the firing window of radialBurst a tick falls in
BurstWindow(tick) == tick \div radialBurst.every

\* C32: radialBurst emits exactly one burst of 24 bullets per 600 ms firing
\* window whatever the frame deltas are: a scheduler tick emits the burst if and
\* only if it is the first tick that falls in its window, and emits nothing
\* otherwise.
C32_OneBurstPerWindow ==
  [][(UniformRun /\ CurrentList = BurstList /\ patternIndex = 0 /\ patternElapsed > 0
        /\ ev'.kind = "frame" /\ ev'.updates = 1) =>
       /\ ev'.volleys \in {<<0>>, <<radialBurst.count>>}
       /\ ev'.volleys = <<radialBurst.count>>
            <=> BurstWindow(ev'.ticks[1]) # BurstWindow(patternElapsed)]_vars


\* ------------------------------------------------------------- the extends
\* scrolling: a run that has come close to the first extend, or has not scored
\* yet; the last fairy is about to die, or the boss is down to its last point
ScoresSoFar == {0, 3800, 3900}

InitScore ==
  \E s \in ScoresSoFar :
    \/ Is([DyingFairy(1000) EXCEPT !.gameState.score = s])
    \/ Is([OnTheBoss(1000) EXCEPT !.gameState.score = s, !.boss.health = 1])

NextScore ==
  \/ \E d \in StageDeltas : \E draw \in StageDraws : DisplayFrame(d, draw)
  \/ KeyDown("z")
  \/ KeyUp("z")

SpecScore == InitScore /\ [][NextScore]_vars

\* C33: scrolling variant: one extra life per 4000 points: the number of
\* extends granted so far is floor(score / 4000), and score is below nextExtend,
\* whatever increments the score has taken.
C33_OneExtendPer4000 ==
  variant = "scrolling" =>
    /\ extends = gameState.score \div ExtendStep
    /\ gameState.score < gameState.nextExtend


\* ---------------------------------------------------------- shufflePatterns
\* [a[i], a[j]] = [a[j], a[i]] that loses a[i]
SwapOverwrite(a, i, j) == [a EXCEPT ![i + 1] = a[j + 1]]

\* [a[i], a[j]] = [a[j], a[i]]  (i and j count from 0)
Swap(a, i, j) == [a EXCEPT ![i + 1] = a[j + 1], ![j + 1] = a[i + 1]]

\* the loop of shufflePatterns from index i down to 1; draws[k] is the value of
\* Math.floor(Math.random() * (i + 1)) in the k-th pass
RECURSIVE FisherYates(_, _, _)
FisherYates(a, i, draws) ==
  IF i <= 0 THEN a
  ELSE FisherYates(Swap(a, i, draws[Len(a) - i]), i - 1, draws)

\* shufflePatterns(arr): the loop works on the copy arr.slice() makes; the
\* result names the argument as the call left it and the array returned
shufflePatterns(arr, draws) ==
  LET a == arr
  IN [arr |-> arr, a |-> FisherYates(a, Len(a) - 1, draws)]

\* the outcomes of the random draws for an array of n entries
MaxPool == 5
DrawsFor(n) ==
  IF n <= 1 THEN {<<>>}
  ELSE {d \in [1..(n - 1) -> 0..(n - 1)] : \A k \in 1..(n - 1) : d[k] <= n - k}

\* the page loads: boss-patterns shuffles the first n patterns of its pool into
\* DefaultBossScript, and the single-boss game is constructed
PageLoad(n, draws) ==
  LET input == SubSeq(ScriptPool, 1, n)
      sh == shufflePatterns(input, draws)
  IN [constructor("single", <<sh.a>>, 0)
        EXCEPT !.ev.shuffles = <<[input |-> input, arr |-> sh.arr, a |-> sh.a]>>]

InitShuffle == \E n \in 0..MaxPool : \E draws \in DrawsFor(n) : Is(PageLoad(n, draws))

NextShuffle ==
  \/ DisplayFrame(16, DefaultDraw)
  \/ NavClick

SpecShuffle == InitShuffle /\ [][NextShuffle]_vars

\* C34: shufflePatterns returns a permutation of its input whatever the random
\* draws are: the same length, every input pattern exactly once and as it was,
\* the input array left as it was; the playlist of the game is that permutation.
C34_ShuffleIsAPermutation ==
  /\ \A c \in 1..Len(ev.shuffles) :
       LET s == ev.shuffles[c]
       IN /\ Len(s.a) = Len(s.input)
          /\ \A k \in 1..Len(s.input) : Occurrences(s.a, s.input[k]) = 1
          /\ s.arr = s.input
          /\ patternSets = <<s.a>>
  /\ LET list == patternSets[1]
     IN /\ Len(list) <= MaxPool
        /\ \A k \in 1..Len(list) : Occurrences(list, ScriptPool[k]) = 1

C34_LastPatternComesFirst ==
  /\ ev.kind = "constructor" /\ Len(ev.shuffles) = 1
  /\ LET s == ev.shuffles[1]
     IN /\ Len(s.input) = MaxPool
        /\ s.a[1] = s.input[MaxPool] /\ s.a[MaxPool] = s.input[1]
        /\ s.a[2] = s.input[3]


\* ------------------------------------------------------ the end of the scroll
\* scrolling: the scroll is about to run out (scrollY in hundredths of a pixel),
\* the spawn timer at the given value
EndOfScroll(t, y, timer) ==
  [InPlay("scrolling", <<>>, t)
     EXCEPT !.gameState.scrollY = y, !.enemySpawnTimer = timer, !.nextId = 200]

InitScroll ==
  \E y \in {0, 12, 24} : \E timer \in {0, 490} : Is(EndOfScroll(1000, y, timer))

NextScroll ==
  \/ \E d \in StageDeltas : \E draw \in StageDraws : DisplayFrame(d, draw)
  \/ NavClick

SpecScroll == InitScroll /\ [][NextScroll]_vars


\* C35 as stated: scrolling variant: while a run is in progress a boss exists if
\* and only if bossPhase is set, the boss has been spawned at most once in the
\* run and only with the scroll at 0, and no enemy has been spawned with
\* bossPhase set.
C35_OneBossNoFairiesAfter ==
  (variant = "scrolling" /\ gameState.isRunning) =>
    /\ (boss # NULL) <=> gameState.bossPhase
    /\ bossSpawns <= 1
    /\ bossSpawns = 1 => (gameState.scrollY = 0 /\ gameState.bossPhase)
    /\ ~spawnedInBossPhase

\* C35, amended: after every frame of a run in progress a boss exists if and
\* only if bossPhase is set and it has been spawned at most once; it is spawned
\* in the frame that begins with the scroll at 0 and bossPhase not set, and in no
\* other; a frame that begins with bossPhase set adds no enemy (the frame that
\* sets bossPhase still runs spawnEnemies).
C35_OneBossNoFairiesInLaterFrames ==
  [][(variant = "scrolling" /\ ev'.kind = "frame" /\ ev'.updates >= 1) =>
       /\ gameState'.isRunning =>
            /\ (boss' # NULL) <=> gameState'.bossPhase
            /\ bossSpawns' <= 1
       /\ bossSpawns' > bossSpawns <=> (gameState.scrollY = 0 /\ ~gameState.bossPhase)
       /\ gameState.bossPhase => Ids(enemies') \subseteq Ids(enemies)]_vars

C35_FairyComesWithTheBoss ==
  /\ variant = "scrolling" /\ ev.kind = "frame" /\ gameState.isRunning
  /\ gameState.bossPhase /\ boss # NULL /\ bossSpawns = 1
  /\ spawnedInBossPhase /\ Len(enemies) = 1


\* C36: every variant: a hostile bullet takes a life only if the distance
\* between its centre and the player's centre is less than the hit radius plus
\* the bullet's radius (half its width).
C36_DamageOnlyInsideTheCircle ==
  \A i \in 1..Len(ev.inCircle) : ev.inCircle[i]


\* ---------------------------------------------------------------------------
\* MarisaFlying: the sprite that flies over the page after ten idle seconds
\* ---------------------------------------------------------------------------

IdleTime == 10000
FlyDuration == 8000
ThrottleTime == 2000
MaxClock == 20000
MaxTimers == 3
MaxSeq == 5

ThrottledEvents == {"mousemove", "scroll"}
DirectEvents == {"click", "keydown", "touchstart", "touchmove"}

\* window.setTimeout: a pending callback of the given kind, due after delay;
\* the handle returned is the new value of seq
setTimeout(m, kind, delay) ==
  [m EXCEPT !.seq = @ + 1,
            !.timers = @ \cup {[id |-> m.seq + 1, kind |-> kind, due |-> m.clock + delay]}]

clearTimeout(m, handle) ==
  [m EXCEPT !.timers = {t \in @ : t.id # handle}]

resetIdle(m) ==
  LET m1 == [m EXCEPT !.lastActivityTime = m.clock]
      m2 == IF m1.idleTimer # 0 THEN clearTimeout(m1, m1.idleTimer) ELSE m1
      m3 == setTimeout(m2, "idle", IdleTime)
  IN  [m3 EXCEPT !.idleTimer = m3.seq]

startIdleDetection(m) == resetIdle(m)

triggerFlight(m) ==
  IF m.isFlying THEN m
  ELSE setTimeout([m EXCEPT !.isFlying = TRUE, !.flyingElement = TRUE,
                            !.flights = @ + 1, !.startedBy = m.ev],
                  "land", FlyDuration)

fly(m) == triggerFlight(m)

stop(m) ==
  LET m1 == IF m.idleTimer # 0 THEN clearTimeout(m, m.idleTimer) ELSE m
  IN  [m1 EXCEPT !.isFlying = FALSE, !.flyingElement = FALSE]

\* the callback resetIdle hands to setTimeout
idleTimeout(m) == IF ~m.isFlying THEN triggerFlight(m) ELSE m

\* the callback triggerFlight hands to setTimeout
flightEnd(m) == resetIdle([m EXCEPT !.isFlying = FALSE, !.flyingElement = FALSE])

\* the listeners init adds for mousemove and scroll
throttled(m, e) ==
  IF m.throttle[e] = 0
    THEN LET m1 == setTimeout(resetIdle(m), e, ThrottleTime)
         IN  [m1 EXCEPT !.throttle[e] = m1.seq]
    ELSE m

throttleEnd(m, e) == [m EXCEPT !.throttle[e] = 0]

newMarisaFlying ==
  startIdleDetection(
    [lastActivityTime |-> 0, idleTimer |-> 0, isFlying |-> FALSE, flyingElement |-> FALSE,
     throttle |-> [e \in ThrottledEvents |-> 0],
     timers |-> {}, seq |-> 0, clock |-> 0,
     ev |-> "constructor", stopped |-> FALSE, flights |-> 0, startedBy |-> "constructor"])

Handled(kind) == [marisa EXCEPT !.ev = kind]

\* time passes on the page, up to the next pending callback
Elapse(d) ==
  /\ marisa # NULL
  /\ marisa.clock + d <= MaxClock
  /\ \A t \in marisa.timers : marisa.clock + d <= t.due
  /\ marisa' = [marisa EXCEPT !.clock = @ + d]
  /\ UNCHANGED gameVars

UserActivity(e) ==
  /\ marisa # NULL
  /\ Cardinality(marisa.timers) < MaxTimers
  /\ marisa.seq < MaxSeq
  /\ marisa' = resetIdle(Handled(e))
  /\ UNCHANGED gameVars

ThrottledActivity(e) ==
  /\ marisa # NULL
  /\ Cardinality(marisa.timers) + 1 < MaxTimers
  /\ marisa.seq + 1 < MaxSeq
  /\ marisa' = throttled(Handled(e), e)
  /\ UNCHANGED gameVars

TimerExpires ==
  /\ marisa # NULL
  /\ marisa.seq < MaxSeq
  /\ \E t \in marisa.timers :
       /\ t.due <= marisa.clock
       /\ LET m == [Handled(t.kind) EXCEPT !.timers = @ \ {t}]
          IN  marisa' = CASE t.kind = "idle" -> idleTimeout(m)
                          [] t.kind = "land" -> flightEnd(m)
                          [] OTHER -> throttleEnd(m, t.kind)
  /\ UNCHANGED gameVars

FlyCall ==
  /\ marisa # NULL
  /\ Cardinality(marisa.timers) < MaxTimers
  /\ marisa.seq < MaxSeq
  /\ marisa' = [fly(Handled("fly")) EXCEPT !.stopped = FALSE]
  /\ UNCHANGED gameVars

StopCall ==
  /\ marisa # NULL
  /\ marisa' = [stop(Handled("stop")) EXCEPT !.stopped = TRUE]
  /\ UNCHANGED gameVars

InitMarisa ==
  /\ IsGame(constructor("single", <<BurstList>>, 0))
  /\ marisa = newMarisaFlying

NextMarisa ==
  \/ \E d \in {ThrottleTime, FlyDuration} : Elapse(d)
  \/ \E e \in DirectEvents : UserActivity(e)
  \/ \E e \in ThrottledEvents : ThrottledActivity(e)
  \/ TimerExpires
  \/ FlyCall
  \/ StopCall

SpecMarisa == InitMarisa /\ [][NextMarisa]_vars

\* C37: once stop() has been called, a flight starts only in an explicit
\* fly() call, never in a timer callback or in a user-activity listener
C37_OnlyFlyStartsAFlightAfterStop ==
  [][(marisa # NULL /\ marisa.stopped /\ marisa'.flights > marisa.flights)
       => marisa'.ev = "fly"]_vars


\* ------------------------------------------------------- paused and running
\* the page has just loaded, a run is on its last life, or the last boss is
\* two hits from its defeat
InitRun ==
  \E v \in PauseVariants : \E sets \in PatternSetsOf(v) :
    sets \in {<<ScriptPool>>, <<Boss1Patterns, Boss2Patterns, Boss3Patterns>>}
      /\ \/ Is(constructor(v, sets, 0))
         \/ Is(LastLife(v, sets, 1000))
         \/ v = "three" /\ Is(PointBlank(sets, MaxStage, InitialLives("three"), 8 * 314 + 8))

NextRun ==
  \/ \E d \in LifeDeltas : DisplayFrame(d, DefaultDraw)
  \/ NavClick
  \/ CloseClick
  \/ PauseClick
  \/ RestartClick

SpecRun == InitRun /\ [][NextRun]_vars

\* C38: in the variants with a pause button a paused game is a running game:
\* isPaused implies isRunning after every start, close, pause click, restart and
\* frame, the frames of game over and of victory included
C38_PausedOnlyWhileRunning ==
  variant \in PauseVariants => (gameState.isPaused => gameState.isRunning)

\* a pause click after the run has ended changes nothing
C38_PauseClickIgnoredWhenStopped ==
  [][(variant \in PauseVariants /\ ~gameState.isRunning /\ ev'.kind = "pause")
       => gameState' = gameState]_vars

\* the pause button was clicked on the game-over or victory screen
C38_PauseClickOnTheEndScreen ==
  /\ variant \in PauseVariants
  /\ ev.kind = "pause" /\ screenShown /\ ~gameState.isRunning /\ ~gameState.isPaused

====
